---- MODULE Spec2Model ----
(***************************************************************************)
(* xpr-fix: a family of arithmetic-expression parsers.                     *)
(*                                                                         *)
(*   - src/xpr-fix.scm: lexer, cursor and the five Scheme parsers          *)
(*     (prefix, postfix, infix-rnn, infix-rpn, infix-lpp);                 *)
(*   - src/unnamed/part_000 (c_infix/lexer.h): the C lexer and cursor;     *)
(*   - src/c_infix/infix_recur_desc.c: C recursive descent;                *)
(*   - src/c_infix/infix_prec_climb.c: C precedence climbing.              *)
(*                                                                         *)
(* A string is a sequence of one-character strings.  A run of the model    *)
(* picks an input string and hands it to one of the parsers.  The          *)
(* recursive-descent parsers are operators computed as the code computes   *)
(* them; the postfix stack automaton is stepped one token at a time.       *)
(***************************************************************************)
EXTENDS Integers, Sequences, FiniteSets, TLC

VARIABLES
    str,        \* the input line / C string handed to the parser
    pc,         \* "start", "postfix" (inside parse-postfix's loop), "done"
    parser,     \* which parser ran (or "none")
    tok_head,   \* xpr-fix.scm: the lookahead token, NoTok for #f
    tok_tail,   \* xpr-fix.scm: the tokens after the lookahead
    stk,        \* parse-postfix: the operand stack, top first
    toks,       \* lexer.h: static Tokens toks (items[0..count-1])
    next_i,     \* lexer.h: static size_t next_i
    res,        \* what the parse call returned, or how it failed
    consumed    \* history: consume calls made since the tokens were set

vars == <<str, pc, parser, tok_head, tok_tail, stk, toks, next_i, res,
          consumed>>

(***************************************************************************)
(* Bounds of the model.                                                    *)
(***************************************************************************)
\* longest input among the strings enumerated character by character
MaxLen == 4
\* most words in the space-separated word lists
MaxWords == 5
\* most binary operators in the generated infix expressions
MaxOps == 3

(***************************************************************************)
(* Characters.                                                             *)
(***************************************************************************)
NUL == "NUL"                \* the terminating '\0' of a C string
Digits == {"0", "1", "2", "3", "4", "5", "6", "7", "8", "9"}

\* RECURSIVE helpers on sequences
RECURSIVE Reverse(_)
Reverse(s) == IF s = <<>> THEN <<>> ELSE Append(Reverse(Tail(s)), Head(s))

SeqsUpTo(S, n) == UNION {[1..k -> S] : k \in 0..n}

(***************************************************************************)
(* xpr-fix.scm: lexer.                                                     *)
(***************************************************************************)
\* #f where the code stores "no token" (tok-head at end of stream, a lex-*
\* procedure that did not match)
NoTok == [t |-> "#f", v |-> "#f"]

make_token(t, v) == [t |-> t, v |-> v]

\* the delimiter and operator character sets handed to string-tokenize
scm_delims == {" ", "\t", "\n"}
scm_ops == {"+", "-", "*", "/", "(", ")"}

\* (string-tokenize line " \t\n" "+-*/()"): the words of the line; the
\* delimiters separate words and are dropped, every operator character is a
\* word of its own, anything else is a maximal run.
RECURSIVE string_tokenize_from(_, _, _)
string_tokenize_from(line, i, cur) ==
    IF i > Len(line)
    THEN IF cur = <<>> THEN <<>> ELSE <<cur>>
    ELSE LET c == line[i]
             flush == IF cur = <<>> THEN <<>> ELSE <<cur>>
         IN  IF c \in scm_delims
             THEN flush \o string_tokenize_from(line, i + 1, <<>>)
             ELSE IF c \in scm_ops
             THEN flush \o <<<<c>>>> \o string_tokenize_from(line, i + 1, <<>>)
             ELSE string_tokenize_from(line, i + 1, Append(cur, c))

string_tokenize(line) == string_tokenize_from(line, 1, <<>>)

DigitVal(c) ==
    CASE c = "0" -> 0 [] c = "1" -> 1 [] c = "2" -> 2 [] c = "3" -> 3
      [] c = "4" -> 4 [] c = "5" -> 5 [] c = "6" -> 6 [] c = "7" -> 7
      [] c = "8" -> 8 [] c = "9" -> 9

\* (string->number word) on the words of the model's alphabets: a non-empty
\* run of decimal digits is a number, read in base ten; anything else is #f
IsNumeral(word) == word # <<>> /\ \A k \in 1..Len(word) : word[k] \in Digits

RECURSIVE NumeralValue(_)
NumeralValue(word) ==
    IF word = <<>> THEN 0
    ELSE 10 * NumeralValue(SubSeq(word, 1, Len(word) - 1))
         + DigitVal(word[Len(word)])

lex_num(word) ==
    IF IsNumeral(word) THEN make_token("n", NumeralValue(word)) ELSE NoTok

lex_op(word) ==
    IF Len(word) = 1 /\ word[1] \in {"+", "-", "*", "/"}
    THEN make_token("o", word[1])
    ELSE NoTok

lex_paren(word) ==
    IF Len(word) # 1 THEN NoTok
    ELSE IF word[1] = "(" THEN make_token("lp", word)
    ELSE IF word[1] = ")" THEN make_token("rp", word)
    ELSE NoTok

\* lex-words: the tokens of the words, or the error of the first word that is
\* neither number, operator nor parenthesis.  The else branch evaluates the
\* arguments of (error 'lex-line "invalid token" word), and word is bound
\* nowhere in lex-words: the run stops on the unbound variable.
RECURSIVE lex_words(_)
lex_words(w) ==
    IF w = <<>> THEN [st |-> "ok", msg |-> "", tokens |-> <<>>]
    ELSE LET tok == IF lex_num(Head(w)).t # "#f" THEN lex_num(Head(w))
                    ELSE IF lex_op(Head(w)).t # "#f" THEN lex_op(Head(w))
                    ELSE lex_paren(Head(w))
         IN  IF tok.t = "#f"
             THEN [st |-> "err", msg |-> "unbound variable: word",
                   tokens |-> <<>>]
             ELSE LET rest == lex_words(Tail(w))
                  IN  IF rest.st = "err" THEN rest
                      ELSE [rest EXCEPT !.tokens = <<tok>> \o @]

lex_line(line) == lex_words(string_tokenize(line))

(***************************************************************************)
(* xpr-fix.scm: cursor.  A cursor value is the pair of the two globals     *)
(* tok-head and tok-tail.                                                  *)
(***************************************************************************)
Cursor(head, tail) == [head |-> head, tail |-> tail]

consume_(cur) ==
    IF cur.tail = <<>>
    THEN Cursor(NoTok, <<>>)
    ELSE Cursor(Head(cur.tail), Tail(cur.tail))

init_(tok_lst) == consume_(Cursor(NoTok, tok_lst))

next_(cur) == cur.head
done_(cur) == next_(cur).t = "#f"
\* (eq? (tok-t (next)) type); the caller has made sure (next) is a token
match_type(cur, type) == next_(cur).t = type
\* (eqv? (tok-v (next)) value) for a symbol value: only an 'o token carries a
\* symbol, a number or a parenthesis string is never eqv? to one
match_value(cur, value) ==
    IF next_(cur).t = "o" THEN next_(cur).v = value ELSE FALSE

\* What a parsing procedure hands back: the value it returned and the cursor
\* it left, or the error it raised.
Ok(v, cur) == [st |-> "ok", msg |-> "", v |-> v, cur |-> cur]
Err(msg, cur) == [st |-> "err", msg |-> msg, v |-> <<>>, cur |-> cur]
\* sequencing: an error raised by r ends the enclosing procedures too,
\* otherwise the rest of the procedure, K, runs on what r returned
Then(r, K(_)) == IF r.st = "err" THEN r ELSE K(r)

\* A tree is a number, written <<n>>, or a list (op left right), written
\* <<op, left, right>>.
Atom(n) == <<n>>
is_list(tree) == Len(tree) = 3

\* no inversion at all: the tree as parsed from the reversed stream
tree_invert_none(tree) == tree

\* the children swapped at the root only
tree_invert_root(tree) ==
    IF ~is_list(tree) THEN tree ELSE <<tree[1], tree[3], tree[2]>>

RECURSIVE tree_invert(_)
tree_invert(tree) ==
    IF ~is_list(tree) THEN tree
    ELSE <<tree[1], tree_invert(tree[3]), tree_invert(tree[2])>>

parse_num(cur) ==
    IF match_type(cur, "n")
    THEN Ok(Atom(next_(cur).v), consume_(cur))
    ELSE Err("failed to parse number", cur)

parse_op(cur) ==
    IF match_type(cur, "o")
    THEN Ok(next_(cur).v, consume_(cur))
    ELSE Err("failed to parse operator", cur)

(***************************************************************************)
(* parse-prefix:  E -> N | O E E                                           *)
(***************************************************************************)
RECURSIVE prefix_parse_expr(_)
\* parse-expr! of parse-prefix without its (done?) test: the end of the stream
\* is then one more lookahead that is neither 'n nor 'o
prefix_parse_expr_no_end(cur) ==
    IF ~done_(cur) /\ match_type(cur, "n") THEN parse_num(cur)
    ELSE IF ~done_(cur) /\ match_type(cur, "o")
    THEN Then(parse_op(cur), LAMBDA op :
         Then(prefix_parse_expr(op.cur), LAMBDA a :
         Then(prefix_parse_expr(a.cur), LAMBDA b :
              Ok(<<op.v, a.v, b.v>>, b.cur))))
    ELSE Err("invalid token", cur)

\* parse-expr! of parse-prefix with the two sub-expressions the other way
\* round in the list it builds
prefix_parse_expr_swapped(cur) ==
    IF done_(cur) THEN Err("missing tokens", cur)
    ELSE IF match_type(cur, "n") THEN parse_num(cur)
    ELSE IF match_type(cur, "o")
    THEN Then(parse_op(cur), LAMBDA op :
         Then(prefix_parse_expr(op.cur), LAMBDA a :
         Then(prefix_parse_expr(a.cur), LAMBDA b :
              Ok(<<op.v, b.v, a.v>>, b.cur))))
    ELSE Err("invalid token", cur)

prefix_parse_expr(cur) ==
    IF done_(cur) THEN Err("missing tokens", cur)
    ELSE IF match_type(cur, "n") THEN parse_num(cur)
    ELSE IF match_type(cur, "o")
    THEN Then(parse_op(cur), LAMBDA op :
         Then(prefix_parse_expr(op.cur), LAMBDA a :
         Then(prefix_parse_expr(a.cur), LAMBDA b :
              Ok(<<op.v, a.v, b.v>>, b.cur))))
    ELSE Err("invalid token", cur)

\* parse-prefix without its (unless (done?) ...) check: what C2 guards against
parse_prefix_toks_unchecked(tokens) == prefix_parse_expr(init_(tokens))

\* parse-prefix after (lex-line line): init!, the top rule, and the check that
\* the stream is done
parse_prefix_toks(tokens) ==
    Then(prefix_parse_expr(init_(tokens)), LAMBDA tree :
         IF done_(tree.cur) THEN tree
         ELSE Err("too many tokens", tree.cur))

(***************************************************************************)
(* parse-infix-rnn:  E -> N R,  R -> e | O E                               *)
(***************************************************************************)
RECURSIVE rnn_E(_), rnn_R(_)
\* E! of parse-infix-rnn with the operands of the list it builds the other
\* way round
rnn_E_swapped(cur) ==
    IF done_(cur) THEN Err("missing tokens", cur)
    ELSE IF match_type(cur, "n")
    THEN Then(parse_num(cur), LAMBDA left :
         Then(rnn_R(left.cur), LAMBDA right :
              IF right.v = <<>> THEN Ok(left.v, right.cur)
              ELSE Ok(<<right.v[1], right.v[2], left.v>>, right.cur)))
    ELSE Err("invalid token", cur)

rnn_E(cur) ==
    IF done_(cur) THEN Err("missing tokens", cur)
    ELSE IF match_type(cur, "n")
    THEN Then(parse_num(cur), LAMBDA left :
         Then(rnn_R(left.cur), LAMBDA right :
              IF right.v = <<>> THEN Ok(left.v, right.cur)
              ELSE Ok(<<right.v[1], left.v, right.v[2]>>, right.cur)))
    ELSE Err("invalid token", cur)

rnn_R(cur) ==
    IF done_(cur) THEN Ok(<<>>, cur)
    ELSE IF match_type(cur, "o")
    THEN Then(parse_op(cur), LAMBDA op :
         Then(rnn_E(op.cur), LAMBDA e :
              Ok(<<op.v, e.v>>, e.cur)))
    ELSE Err("invalid token", cur)

\* parse-infix-rnn after (lex-line line): init!, the top rule, and the check that
\* the stream is done
parse_infix_rnn_toks(tokens) ==
    Then(rnn_E(init_(tokens)), LAMBDA tree :
         IF done_(tree.cur) THEN tree
         ELSE Err("too many tokens", tree.cur))

(***************************************************************************)
(* parse-infix-rpn:  EXPR -> TERM | TERM [+,-] EXPR                        *)
(*                   TERM -> FACT | FACT [*,/] TERM                        *)
(*                   FACT -> NUM                                           *)
(***************************************************************************)
rpn_FACT(cur) ==
    IF done_(cur) THEN Err("missing tokens", cur)
    ELSE IF match_type(cur, "n") THEN parse_num(cur)
    ELSE Err("invalid token", cur)

RECURSIVE rpn_TERM(_)
rpn_TERM(cur) ==
    IF done_(cur) THEN Err("missing tokens", cur)
    ELSE Then(rpn_FACT(cur), LAMBDA fact :
              IF done_(fact.cur) THEN fact
              ELSE IF match_value(fact.cur, "*") \/ match_value(fact.cur, "/")
              THEN Then(parse_op(fact.cur), LAMBDA op :
                   Then(rpn_TERM(op.cur), LAMBDA t :
                        Ok(<<op.v, fact.v, t.v>>, t.cur)))
              ELSE fact)

RECURSIVE rpn_EXPR(_)
rpn_EXPR(cur) ==
    IF done_(cur) THEN Err("missing tokens", cur)
    ELSE Then(rpn_TERM(cur), LAMBDA term :
              IF done_(term.cur) THEN term
              ELSE IF match_value(term.cur, "+") \/ match_value(term.cur, "-")
              THEN Then(parse_op(term.cur), LAMBDA op :
                   Then(rpn_EXPR(op.cur), LAMBDA e :
                        Ok(<<op.v, term.v, e.v>>, e.cur)))
              ELSE Err("invalid token", term.cur))

\* parse-infix-rpn after (lex-line line): init!, the top rule, and the check that
\* the stream is done
parse_infix_rpn_toks(tokens) ==
    Then(rpn_EXPR(init_(tokens)), LAMBDA tree :
         IF done_(tree.cur) THEN tree
         ELSE Err("too many tokens", tree.cur))

(***************************************************************************)
(* parse-infix-lpp, on the reversed token list:                            *)
(*     E  -> EL T,   EL -> EL T [+,-] | e                                  *)
(*     T  -> TL F,   TL -> TL F [*,/] | e                                  *)
(*     F  -> ( E ) | NUM                                                   *)
(***************************************************************************)
RECURSIVE lpp_E(_), lpp_EL(_), lpp_T(_), lpp_TL(_), lpp_F(_)
lpp_E(cur) ==
    IF done_(cur) THEN Err("missing tokens", cur)
    ELSE Then(lpp_T(cur), LAMBDA t :
         Then(lpp_EL(t.cur), LAMBDA el :
              IF el.v = <<>> THEN Ok(t.v, el.cur)
              ELSE Ok(<<el.v[1], t.v, el.v[2]>>, el.cur)))

lpp_EL(cur) ==
    IF done_(cur) THEN Ok(<<>>, cur)
    ELSE IF match_value(cur, "+") \/ match_value(cur, "-")
    THEN Then(parse_op(cur), LAMBDA op :
         Then(lpp_T(op.cur), LAMBDA t :
         Then(lpp_EL(t.cur), LAMBDA el :
              IF el.v = <<>> THEN Ok(<<op.v, t.v>>, el.cur)
              ELSE Ok(<<op.v, <<el.v[1], t.v, el.v[2]>>>>, el.cur))))
    ELSE Ok(<<>>, cur)

lpp_T(cur) ==
    IF done_(cur) THEN Err("missing tokens", cur)
    ELSE Then(lpp_F(cur), LAMBDA f :
         Then(lpp_TL(f.cur), LAMBDA tl :
              IF tl.v = <<>> THEN Ok(f.v, tl.cur)
              ELSE Ok(<<tl.v[1], f.v, tl.v[2]>>, tl.cur)))

lpp_TL(cur) ==
    IF done_(cur) THEN Ok(<<>>, cur)
    ELSE IF match_value(cur, "*") \/ match_value(cur, "/")
    THEN Then(parse_op(cur), LAMBDA op :
         Then(lpp_F(op.cur), LAMBDA f :
         Then(lpp_TL(f.cur), LAMBDA tl :
              IF tl.v = <<>> THEN Ok(<<op.v, f.v>>, tl.cur)
              ELSE Ok(<<op.v, <<tl.v[1], f.v, tl.v[2]>>>>, tl.cur))))
    ELSE Ok(<<>>, cur)

\* After the bracketed E!, (match-type? 'lp) applies tok-t to (next) without
\* a done? check: at the end of the stream (next) is #f and tok-t, a record
\* accessor, stops the run with a type error.
lpp_F(cur) ==
    IF done_(cur) THEN Err("missing tokens", cur)
    ELSE IF match_type(cur, "n") THEN parse_num(cur)
    ELSE IF match_type(cur, "rp")
    THEN Then(lpp_E(consume_(cur)), LAMBDA e :
              IF done_(e.cur) THEN Err("bad argument type", e.cur)
              ELSE IF match_type(e.cur, "lp") THEN Ok(e.v, consume_(e.cur))
              ELSE Err("missing open bracket", e.cur))
    ELSE IF match_type(cur, "lp") THEN Err("invalid open bracket", cur)
    ELSE Err("invalid token", cur)

\* parse-infix-lpp after (lex-line line): init! on the reversed list, E!, the
\* check that the stream is done, tree-invert
parse_infix_lpp_toks(tokens) ==
    Then(lpp_E(init_(Reverse(tokens))), LAMBDA tree :
         IF done_(tree.cur) THEN Ok(tree_invert(tree.v), tree.cur)
         ELSE Err("too many tokens", tree.cur))

\* A Scheme parser applied to a line: lex-line first, whose error ends the
\* call before init! has touched the cursor
LexErr(l) == Err(l.msg, Cursor(NoTok, <<>>))
\* the parser P applied to what lex-line returned
AfterLex(l, P(_)) == IF l.st = "err" THEN LexErr(l) ELSE P(l.tokens)

parse_prefix(line) == AfterLex(lex_line(line), parse_prefix_toks)

parse_infix_rnn(line) == AfterLex(lex_line(line), parse_infix_rnn_toks)

parse_infix_rpn(line) == AfterLex(lex_line(line), parse_infix_rpn_toks)

parse_infix_lpp(line) == AfterLex(lex_line(line), parse_infix_lpp_toks)

(***************************************************************************)
(* c_infix/lexer.h: the C lexer and cursor.                                *)
(***************************************************************************)
TokenType == {"TOK_VAL", "TOK_EQUALS", "TOK_PLUS", "TOK_MINUS", "TOK_TIMES",
              "TOK_DIVIDE", "TOK_EXPONENT", "TOK_PAREN_L", "TOK_PAREN_R",
              "TOK_END"}

\* a Token: its type and its word; NullWord stands for the NULL word of
\* tok_end
NullWord == <<"NULL">>
Token(type, word) == [type |-> type, word |-> word]
tok_end == Token("TOK_END", NullWord)

op_chars == {"=", "+", "-", "*", "/", "^", "(", ")"}
isspace(c) == c \in {" ", "\t", "\n"}
\* strchr(op_chars, c) != NULL: the terminator counts as part of the string,
\* so strchr finds '\0' too
strchr_op_chars(c) == c \in op_chars \/ c = NUL

\* The bytes lex_string can read: the string, its terminator, and what
\* happens to lie behind it in memory (mem, itself ended by a zero byte).
Buffer(s, mem) == s \o <<NUL>> \o mem \o <<NUL>>

RECURSIVE skip_whitespace(_, _)
skip_whitespace(buf, i) ==
    IF i <= Len(buf) /\ isspace(buf[i]) THEN skip_whitespace(buf, i + 1) ELSE i

RECURSIVE value_end(_, _)
value_end(buf, i) ==
    IF i <= Len(buf) /\ buf[i] # NUL /\ ~isspace(buf[i])
       /\ ~strchr_op_chars(buf[i])
    THEN value_end(buf, i + 1) ELSE i

\* The loop of lex_string from position i of the buffer, out being the
\* tokens appended so far.  When the character after skipped whitespace is
\* the terminator, strchr still matches: the switch assigns no type (junk is
\* the indeterminate value of the uninitialized local), a token with an empty
\* word is appended, and ++str steps behind the terminator.
RECURSIVE lex_loop(_, _, _, _)
lex_loop(buf, i, out, junk) ==
    IF i > Len(buf) \/ buf[i] = NUL THEN out
    ELSE LET j == skip_whitespace(buf, i)
             c == buf[j]
         IN  IF strchr_op_chars(c)
             THEN LET type == CASE c = "=" -> "TOK_EQUALS"
                                [] c = "+" -> "TOK_PLUS"
                                [] c = "-" -> "TOK_MINUS"
                                [] c = "*" -> "TOK_TIMES"
                                [] c = "/" -> "TOK_DIVIDE"
                                [] c = "^" -> "TOK_EXPONENT"
                                [] c = "(" -> "TOK_PAREN_L"
                                [] c = ")" -> "TOK_PAREN_R"
                                [] OTHER -> junk
                      word == IF c = NUL THEN <<>> ELSE <<c>>
                  IN  lex_loop(buf, j + 1, Append(out, Token(type, word)), junk)
             ELSE LET k == value_end(buf, j)
                  IN  lex_loop(buf, k,
                               Append(out, Token("TOK_VAL", SubSeq(buf, j, k - 1))),
                               junk)

\* lex_string reads behind the terminator exactly when the string ends in
\* whitespace: the inner skip loop stops on the terminator inside the outer
\* loop's body
reads_past_end(s) == s # <<>> /\ isspace(s[Len(s)])

\* The outcomes of the undefined behaviour: the value of the uninitialized
\* type, and the bytes behind the string (or a fault on reading them).
UBMem == {<<>>, <<"7">>, <<"+">>}
UBOutcomes(s) ==
    IF reads_past_end(s)
    THEN [junk : TokenType \cup {"GARBAGE"}, mem : UBMem, fault : BOOLEAN]
    ELSE {[junk |-> "TOK_VAL", mem |-> <<>>, fault |-> FALSE]}

\* lex_string(str) after lex_reset(): the new contents of toks
lex_string(s, ub) == lex_loop(Buffer(s, ub.mem), 1, <<>>, ub.junk)

\* next(), consume(), expect() on (toks, next_i); items[i] is ts[i + 1]
next(ts, i) == IF i < Len(ts) THEN ts[i + 1] ELSE tok_end
\* consume() without its test against toks.count
consume_unguarded(ts, i) == i + 1

consume(ts, i) == IF i < Len(ts) THEN i + 1 ELSE i
expect(ts, i, type, v) ==
    IF type = next(ts, i).type
    THEN Ok(v, consume(ts, i))
    ELSE Err("expected %d, got %d", i)

(***************************************************************************)
(* c_infix/infix_recur_desc.c:                                             *)
(*     EXPR -> TERM ([+-] EXPR)?   TERM -> FACT ([*/] TERM)?               *)
(*     FACT -> VAL | "(" EXPR ")"                                          *)
(* An AST is <<tok>> (no children), <<tok, child>> or <<tok, left, right>>.*)
(***************************************************************************)
AST_make(tok, left, right) == <<tok, left, right>>
AST_leaf(tok) == <<tok>>

RECURSIVE rd_fact(_, _), rd_term(_, _), rd_term_loop(_, _, _),
          rd_expr(_, _), rd_expr_loop(_, _, _)
rd_fact(ts, i) ==
    IF next(ts, i).type = "TOK_VAL"
    THEN Ok(AST_leaf(next(ts, i)), consume(ts, i))
    ELSE IF next(ts, i).type = "TOK_PAREN_L"
    THEN Then(rd_expr(ts, consume(ts, i)), LAMBDA ast :
              expect(ts, ast.cur, "TOK_PAREN_R", ast.v))
    ELSE Err("unexpected token: type = %d, word = %s", i)

rd_term_loop(ts, i, left) ==
    IF next(ts, i).type = "TOK_TIMES" \/ next(ts, i).type = "TOK_DIVIDE"
    THEN Then(rd_term(ts, consume(ts, i)), LAMBDA right :
              rd_term_loop(ts, right.cur, AST_make(next(ts, i), left, right.v)))
    ELSE Ok(left, i)

rd_term(ts, i) ==
    Then(rd_fact(ts, i), LAMBDA left : rd_term_loop(ts, left.cur, left.v))

\* the loop of expr taking a term, not an expr, as its right operand
rd_expr_loop_left(ts, i, left) ==
    IF next(ts, i).type = "TOK_PLUS" \/ next(ts, i).type = "TOK_MINUS"
    THEN Then(rd_term(ts, consume(ts, i)), LAMBDA right :
              rd_expr_loop(ts, right.cur, AST_make(next(ts, i), left, right.v)))
    ELSE Ok(left, i)

rd_expr_loop(ts, i, left) ==
    IF next(ts, i).type = "TOK_PLUS" \/ next(ts, i).type = "TOK_MINUS"
    THEN Then(rd_expr(ts, consume(ts, i)), LAMBDA right :
              rd_expr_loop(ts, right.cur, AST_make(next(ts, i), left, right.v)))
    ELSE Ok(left, i)

rd_expr(ts, i) ==
    Then(rd_term(ts, i), LAMBDA left : rd_expr_loop(ts, left.cur, left.v))

\* parse() after lex_string(): expr(), then expect(TOK_END)
rd_parse_toks(ts) ==
    Then(rd_expr(ts, 0), LAMBDA ast : expect(ts, ast.cur, "TOK_END", ast.v))

(***************************************************************************)
(* c_infix/infix_prec_climb.c:                                             *)
(*     EXPR -> E(0)    E(p) -> P {B E(q)}                                  *)
(*     P -> U E(q) | "(" EXPR ")" | VAL                                    *)
(***************************************************************************)
PrecItem(sym, prec, assoc) == [sym |-> sym, prec |-> prec, assoc |-> assoc]

unary_prec_arr == << PrecItem("-", 4, "ASSOC_NULL") >>

binary_prec_arr ==
    << PrecItem("=", 0, "ASSOC_LEFT"),
       PrecItem("+", 1, "ASSOC_LEFT"),
       PrecItem("-", 1, "ASSOC_LEFT"),
       PrecItem("*", 2, "ASSOC_LEFT"),
       PrecItem("/", 2, "ASSOC_LEFT"),
       PrecItem("^", 3, "ASSOC_RIGHT") >>

\* the index of the first item with the symbol, 0 for NULL
prec_arr_find(prec_arr, sym) ==
    IF \E k \in 1..Len(prec_arr) : prec_arr[k].sym = sym
    THEN CHOOSE k \in 1..Len(prec_arr) :
            /\ prec_arr[k].sym = sym
            /\ \A m \in 1..(k - 1) : prec_arr[m].sym # sym
    ELSE 0

prec_arr_contains(prec_arr, sym) == prec_arr_find(prec_arr, sym) # 0

\* *tok.word: the first character of the word, the terminator if it is empty
first_char(tok) == IF tok.word = <<>> THEN NUL ELSE tok.word[1]

is_unary_op(tok) ==
    IF tok.type = "TOK_END" THEN FALSE
    ELSE prec_arr_contains(unary_prec_arr, first_char(tok))

is_binary_op(tok) ==
    IF tok.type = "TOK_END" THEN FALSE
    ELSE prec_arr_contains(binary_prec_arr, first_char(tok))

\* unary minus given the lowest precedence of the table
get_unary_prec_lowest(tok) == 0

get_unary_prec(tok) ==
    unary_prec_arr[prec_arr_find(unary_prec_arr, first_char(tok))].prec

get_binary_prec(tok) ==
    binary_prec_arr[prec_arr_find(binary_prec_arr, first_char(tok))].prec

AST_value(val) == <<val>>
AST_unary(op, child) == <<op, child>>
AST_binary(op, left, right) == <<op, left, right>>

\* every operator taken as left-associative
next_prec_of_left(item) == item.prec + 1

\* E's choice of the precedence its right operand is parsed at
next_prec_of(item) ==
    IF item.assoc = "ASSOC_LEFT" THEN item.prec + 1 ELSE item.prec
next_prec(op) ==
    next_prec_of(binary_prec_arr[prec_arr_find(binary_prec_arr, first_char(op))])

RECURSIVE P(_, _), E(_, _, _), E_loop(_, _, _, _), expr(_, _)
\* P keeping the brackets in the tree, as a node over the bracketed
\* expression
P_keeping_parens(ts, i) ==
    IF is_unary_op(next(ts, i))
    THEN Then(E(ts, consume(ts, i), get_unary_prec(next(ts, i))),
              LAMBDA child : Ok(AST_unary(next(ts, i), child.v), child.cur))
    ELSE IF next(ts, i).type = "TOK_PAREN_L"
    THEN Then(expr(ts, consume(ts, i)), LAMBDA ast :
              expect(ts, ast.cur, "TOK_PAREN_R", AST_unary(next(ts, i), ast.v)))
    ELSE IF next(ts, i).type = "TOK_VAL"
    THEN Ok(AST_value(next(ts, i)), consume(ts, i))
    ELSE Err("invalid token: %s", i)

P(ts, i) ==
    IF is_unary_op(next(ts, i))
    THEN Then(E(ts, consume(ts, i), get_unary_prec(next(ts, i))),
              LAMBDA child : Ok(AST_unary(next(ts, i), child.v), child.cur))
    ELSE IF next(ts, i).type = "TOK_PAREN_L"
    THEN Then(expr(ts, consume(ts, i)), LAMBDA ast :
              expect(ts, ast.cur, "TOK_PAREN_R", ast.v))
    ELSE IF next(ts, i).type = "TOK_VAL"
    THEN Ok(AST_value(next(ts, i)), consume(ts, i))
    ELSE Err("invalid token: %s", i)

\* the while loop of E, left being the tree built so far
E_loop(ts, i, left, min_prec) ==
    IF is_binary_op(next(ts, i)) /\ get_binary_prec(next(ts, i)) >= min_prec
    THEN Then(E(ts, consume(ts, i), next_prec(next(ts, i))), LAMBDA right :
              E_loop(ts, right.cur, AST_binary(next(ts, i), left, right.v),
                     min_prec))
    ELSE Ok(left, i)

E(ts, i, min_prec) ==
    Then(P(ts, i), LAMBDA left : E_loop(ts, left.cur, left.v, min_prec))

expr(ts, i) == E(ts, i, 0)

\* parse() after lex_string(): expr(), then expect(TOK_END)
parse_toks(ts) ==
    Then(expr(ts, 0), LAMBDA ast : expect(ts, ast.cur, "TOK_END", ast.v))

(***************************************************************************)
(* unnamed/part_001, the earlier infix_prec_climb.c with the "classic"      *)
(* algorithm:                                                              *)
(*     EXPR -> TERM ([+-] EXPR)?   TERM -> FACT ([*/] TERM)?               *)
(*     FACT -> NUM | "(" EXPR ")"                                          *)
(* Its lexer returns the Tokens; its cursor is toks, tok_i (next_i here)   *)
(* with next, consume and expect as in lexer.h.                            *)
(***************************************************************************)
classic_TokenType == {"TOK_PLUS", "TOK_MINUS", "TOK_TIMES", "TOK_DIVIDE",
                      "TOK_PAREN_L", "TOK_PAREN_R", "TOK_OTHER", "TOK_END"}

classic_op_chars == {"+", "-", "*", "/", "(", ")"}
\* strchr("+-*/()", c) != NULL, which holds for the terminator too
classic_strchr(c) == c \in classic_op_chars \/ c = NUL

RECURSIVE classic_value_end(_, _)
classic_value_end(buf, i) ==
    IF i <= Len(buf) /\ buf[i] # NUL /\ ~isspace(buf[i]) /\ ~classic_strchr(buf[i])
    THEN classic_value_end(buf, i + 1) ELSE i

\* the loop of lex_string of part_001; as in lexer.h the terminator reached
\* after skipped whitespace is taken for an operator character
RECURSIVE classic_lex_loop(_, _, _, _)
classic_lex_loop(buf, i, out, junk) ==
    IF i > Len(buf) \/ buf[i] = NUL THEN out
    ELSE LET j == skip_whitespace(buf, i)
             c == buf[j]
         IN  IF classic_strchr(c)
             THEN LET type == CASE c = "+" -> "TOK_PLUS"
                                [] c = "-" -> "TOK_MINUS"
                                [] c = "*" -> "TOK_TIMES"
                                [] c = "/" -> "TOK_DIVIDE"
                                [] c = "(" -> "TOK_PAREN_L"
                                [] c = ")" -> "TOK_PAREN_R"
                                [] OTHER -> junk
                      word == IF c = NUL THEN <<>> ELSE <<c>>
                  IN  classic_lex_loop(buf, j + 1, Append(out, Token(type, word)),
                                       junk)
             ELSE LET k == classic_value_end(buf, j)
                  IN  classic_lex_loop(buf, k,
                          Append(out, Token("TOK_OTHER", SubSeq(buf, j, k - 1))),
                          junk)

classic_UBOutcomes(s) ==
    IF reads_past_end(s)
    THEN [junk : classic_TokenType \cup {"GARBAGE"}, mem : UBMem, fault : BOOLEAN]
    ELSE {[junk |-> "TOK_OTHER", mem |-> <<>>, fault |-> FALSE]}

classic_lex_string(s, ub) == classic_lex_loop(Buffer(s, ub.mem), 1, <<>>, ub.junk)

RECURSIVE classic_fact(_, _), classic_term(_, _), classic_term_loop(_, _, _),
          classic_expr(_, _), classic_expr_loop(_, _, _)
classic_fact(ts, i) ==
    IF next(ts, i).type = "TOK_OTHER"
    THEN Ok(AST_leaf(next(ts, i)), consume(ts, i))
    ELSE IF next(ts, i).type = "TOK_PAREN_L"
    THEN Then(classic_expr(ts, consume(ts, i)), LAMBDA ast :
              expect(ts, ast.cur, "TOK_PAREN_R", ast.v))
    ELSE Err("unexpected token: type = %d, word = %s", i)

classic_term_loop(ts, i, left) ==
    IF next(ts, i).type = "TOK_TIMES" \/ next(ts, i).type = "TOK_DIVIDE"
    THEN Then(classic_term(ts, consume(ts, i)), LAMBDA right :
              classic_term_loop(ts, right.cur,
                                AST_make(next(ts, i), left, right.v)))
    ELSE Ok(left, i)

classic_term(ts, i) ==
    Then(classic_fact(ts, i), LAMBDA left :
         classic_term_loop(ts, left.cur, left.v))

classic_expr_loop(ts, i, left) ==
    IF next(ts, i).type = "TOK_PLUS" \/ next(ts, i).type = "TOK_MINUS"
    THEN Then(classic_expr(ts, consume(ts, i)), LAMBDA right :
              classic_expr_loop(ts, right.cur,
                                AST_make(next(ts, i), left, right.v)))
    ELSE Ok(left, i)

classic_expr(ts, i) ==
    Then(classic_term(ts, i), LAMBDA left :
         classic_expr_loop(ts, left.cur, left.v))

\* classic_parse() after toks = lex_string(str): classic_expr() and
\* expect(TOK_END), from tok_i as the calls before left it: classic_parse
\* assigns toks and leaves tok_i alone
classic_parse_toks(ts, i) ==
    Then(classic_expr(ts, i), LAMBDA ast : expect(ts, ast.cur, "TOK_END", ast.v))

(***************************************************************************)
(* src/infix_prec_climb.c: the first lexer.  Its loop for other characters *)
(* stops at the terminator and at an operator character only, so a word    *)
(* runs on through whitespace.                                             *)
(***************************************************************************)
old_TokenType == {"TOK_PLUS", "TOK_MINUS", "TOK_TIMES", "TOK_DIVIDE",
                  "TOK_PLEFT", "TOK_PRIGHT", "TOK_OTHER"}

\* while (*str && !strchr("+-*/()", *str)) ++str;
RECURSIVE old_value_end(_, _)
old_value_end(buf, i) ==
    IF i <= Len(buf) /\ buf[i] # NUL /\ ~classic_strchr(buf[i])
    THEN old_value_end(buf, i + 1) ELSE i

RECURSIVE old_lex_loop(_, _, _, _)
old_lex_loop(buf, i, out, junk) ==
    IF i > Len(buf) \/ buf[i] = NUL THEN out
    ELSE LET j == skip_whitespace(buf, i)
             c == buf[j]
         IN  IF classic_strchr(c)
             THEN LET type == CASE c = "+" -> "TOK_PLUS"
                                [] c = "-" -> "TOK_MINUS"
                                [] c = "*" -> "TOK_TIMES"
                                [] c = "/" -> "TOK_DIVIDE"
                                [] c = "(" -> "TOK_PLEFT"
                                [] c = ")" -> "TOK_PRIGHT"
                                [] OTHER -> junk
                      word == IF c = NUL THEN <<>> ELSE <<c>>
                  IN  old_lex_loop(buf, j + 1, Append(out, Token(type, word)),
                                   junk)
             ELSE LET k == old_value_end(buf, j)
                  IN  old_lex_loop(buf, k,
                          Append(out, Token("TOK_OTHER", SubSeq(buf, j, k - 1))),
                          junk)

\* whitespace after a word belongs to the word; the terminator is reached
\* by the skip loop, and read past, when only whitespace follows an
\* operator character or the start of the string
RECURSIVE old_reads_past_end(_)
old_reads_past_end(s) ==
    /\ s # <<>>
    /\ isspace(s[Len(s)])
    /\ \/ Len(s) = 1
       \/ classic_strchr(s[Len(s) - 1])
       \/ old_reads_past_end(SubSeq(s, 1, Len(s) - 1))

old_UBOutcomes(s) ==
    IF old_reads_past_end(s)
    THEN [junk : old_TokenType \cup {"GARBAGE"}, mem : UBMem, fault : BOOLEAN]
    ELSE {[junk |-> "TOK_OTHER", mem |-> <<>>, fault |-> FALSE]}

old_lex_string(s, ub) == old_lex_loop(Buffer(s, ub.mem), 1, <<>>, ub.junk)

(***************************************************************************)
(* The inputs of the model.                                                *)
(***************************************************************************)
\* every string of at most MaxLen characters over digits, an additive and a
\* multiplicative operator, the parentheses and the blank
InputChars == {"1", "2", "+", "*", "(", ")", " "}
InputStrings == SeqsUpTo(InputChars, MaxLen)

\* every list of at most MaxWords one-character words, blank-separated
InputWordChars == {"1", "2", "+", "*"}
RECURSIVE Spaced(_)
Spaced(ws) ==
    IF Len(ws) <= 1 THEN ws
    ELSE <<Head(ws), " ">> \o Spaced(Tail(ws))
InputWordLists == {Spaced(ws) : ws \in SeqsUpTo(InputWordChars, MaxWords)}

\* the operands of a generated expression are 1, 2, 3, ... in input order
OperandDigits == <<"1", "2", "3", "4", "5", "6", "7", "8", "9">>
RECURSIVE NumberOperands(_, _)
NumberOperands(shape, k) ==
    IF shape = <<>> THEN <<>>
    ELSE IF Head(shape) = "n"
    THEN <<OperandDigits[((k - 1) % 9) + 1]>> \o NumberOperands(Tail(shape), k + 1)
    ELSE <<Head(shape)>> \o NumberOperands(Tail(shape), k)

\* operator chains n o n o ... n with at most MaxOps operators, over all six
\* binary operators of binary_prec_arr
ChainOps == {"=", "+", "-", "*", "/", "^"}
RECURSIVE ChainOf(_)
ChainOf(ops) ==
    IF ops = <<>> THEN <<"n">> ELSE <<"n", Head(ops)>> \o ChainOf(Tail(ops))
InputChains == {NumberOperands(ChainOf(ops), 1) : ops \in SeqsUpTo(ChainOps, MaxOps)}

\* bracketed expressions with exactly k binary operators: an expression is
\* primaries joined by operators, a primary an operand or a bracketed
\* expression with at least one operator
MaxParenOps == 3
ParenOps == {"+", "-", "*", "/"}
RECURSIVE JoinedShapes(_), PrimaryShapes(_)
\* k operators, at least one of them outside every bracket
JoinedShapes(k) ==
    UNION { UNION { { a \o <<o>> \o b : o \in ParenOps }
                    : a \in PrimaryShapes(m),
                      b \in IF k - 1 - m = 0 THEN {<<"n">>}
                            ELSE JoinedShapes(k - 1 - m)
                                   \cup PrimaryShapes(k - 1 - m) }
            : m \in 0..(k - 1) }
PrimaryShapes(m) ==
    IF m = 0 THEN {<<"n">>}
    ELSE {<<"(">> \o e \o <<")">> : e \in JoinedShapes(m)}
ParenShapes(k) == JoinedShapes(k) \cup PrimaryShapes(k)
InputParens ==
    UNION { {NumberOperands(e, 1) : e \in ParenShapes(k)} : k \in 1..MaxParenOps }

\* chains whose operands may carry a unary minus
MaxUnaryOps == 2
UnaryOps == {"-", "*", "^"}
RECURSIVE UnaryChainOf(_, _)
UnaryChainOf(ops, neg) ==
    LET operand == IF Head(neg) THEN <<"-", "n">> ELSE <<"n">>
    IN  IF ops = <<>> THEN operand
        ELSE operand \o <<Head(ops)>> \o UnaryChainOf(Tail(ops), Tail(neg))
InputUnary ==
    UNION { { NumberOperands(UnaryChainOf(ops, neg), 1)
              : ops \in [1..k -> UnaryOps], neg \in [1..(k + 1) -> BOOLEAN] }
            : k \in 0..MaxUnaryOps }

\* chains of at most MaxUnaryOps operators whose operands are values under
\* unary minus signs, with and without brackets
NestedForms == { <<"n">>, <<"-", "n">>, <<"-", "-", "n">>,
                 <<"-", "(", "n", "+", "n", ")">>,
                 <<"-", "(", "-", "n", ")">> }
NestedOps == {"+", "^"}
RECURSIVE NestedChainOf(_, _)
NestedChainOf(ops, forms) ==
    IF ops = <<>> THEN Head(forms)
    ELSE Head(forms) \o <<Head(ops)>> \o NestedChainOf(Tail(ops), Tail(forms))
InputNested ==
    UNION { { NumberOperands(NestedChainOf(ops, forms), 1)
              : ops \in [1..k -> NestedOps], forms \in [1..(k + 1) -> NestedForms] }
            : k \in 0..MaxUnaryOps }

\* every string of at most MaxNameLen characters with a letter in it
MaxNameLen == 3
Letters == {"a"}
InputNames == {s \in SeqsUpTo({"a", "1", "+", " "}, MaxNameLen) :
                  \E p \in 1..Len(s) : s[p] \in Letters}

Inputs == InputStrings \cup InputWordLists \cup InputChains
          \cup InputParens \cup InputUnary \cup InputNames
          \cup InputNested

(***************************************************************************)
(* The state machine.                                                      *)
(***************************************************************************)
NoResult == [st |-> "none", msg |-> "", v |-> <<>>]
Result(r) == [st |-> r.st, msg |-> r.msg, v |-> r.v]
Fault == [st |-> "fault", msg |-> "", v |-> <<>>]

Init ==
    /\ str \in Inputs
    /\ pc = "start"
    /\ parser = "none"
    /\ tok_head = NoTok
    /\ tok_tail = <<>>
    /\ stk = <<>>
    /\ toks = <<>>
    /\ next_i = 0
    /\ res = NoResult
    /\ consumed = 0

\* One call of a Scheme recursive-descent parser on the line: lex-line, and
\* unless it fails, init! and the parse, which leave the cursor where the
\* parse stopped.
SchemeCall(name, r) ==
    /\ pc = "start"
    /\ pc' = "done"
    /\ parser' = name
    /\ res' = Result(r)
    /\ IF lex_line(str).st = "err"
       THEN UNCHANGED <<tok_head, tok_tail>>
       ELSE tok_head' = r.cur.head /\ tok_tail' = r.cur.tail
    /\ UNCHANGED <<str, stk, toks, next_i, consumed>>

ParsePrefix == SchemeCall("prefix", parse_prefix(str))
ParseInfixRnn == SchemeCall("infix-rnn", parse_infix_rnn(str))
ParseInfixRpn == SchemeCall("infix-rpn", parse_infix_rpn(str))
ParseInfixLpp == SchemeCall("infix-lpp", parse_infix_lpp(str))

\* parse-postfix up to its first parse-expr! call: lex-line and init!
PostfixInit ==
    /\ pc = "start"
    /\ parser' = "postfix"
    /\ LET l == lex_line(str)
       IN  IF l.st = "err"
           THEN /\ pc' = "done"
                /\ res' = [st |-> "err", msg |-> l.msg, v |-> <<>>]
                /\ UNCHANGED <<tok_head, tok_tail>>
           ELSE /\ pc' = "postfix"
                /\ res' = res
                /\ tok_head' = init_(l.tokens).head
                /\ tok_tail' = init_(l.tokens).tail
    /\ stk' = <<>>
    /\ UNCHANGED <<str, toks, next_i, consumed>>

\* the body of parse-expr! with the popped nodes the other way round in the
\* operation it pushes
postfix_step_swapped(cur, stack) ==
    IF match_type(cur, "n")
    THEN LET num == parse_num(cur)
         IN  [st |-> "ok", msg |-> "", cur |-> num.cur,
              stk |-> <<num.v>> \o stack]
    ELSE IF match_type(cur, "o")
    THEN IF stack = <<>> \/ Tail(stack) = <<>>
         THEN [st |-> "err", msg |-> "missing arguments", cur |-> cur,
               stk |-> stack]
         ELSE LET op == parse_op(cur)
              IN  [st |-> "ok", msg |-> "", cur |-> op.cur,
                   stk |-> << <<op.v, stack[1], stack[2]>> >>
                           \o Tail(Tail(stack))]
    ELSE [st |-> "err", msg |-> "invalid token", cur |-> cur, stk |-> stack]

\* the body of parse-expr! for one token; stk is the stack after it, or the
\* error that ends the parse
postfix_step(cur, stack) ==
    IF match_type(cur, "n")
    THEN LET num == parse_num(cur)
         IN  [st |-> "ok", msg |-> "", cur |-> num.cur,
              stk |-> <<num.v>> \o stack]
    ELSE IF match_type(cur, "o")
    THEN IF stack = <<>> \/ Tail(stack) = <<>>
         THEN [st |-> "err", msg |-> "missing arguments", cur |-> cur,
               stk |-> stack]
         ELSE LET op == parse_op(cur)
              IN  [st |-> "ok", msg |-> "", cur |-> op.cur,
                   stk |-> << <<op.v, stack[2], stack[1]>> >>
                           \o Tail(Tail(stack))]
    ELSE [st |-> "err", msg |-> "invalid token", cur |-> cur, stk |-> stack]

\* one round of parse-expr!: (unless (done?) ... (parse-expr!))
PostfixStep ==
    /\ pc = "postfix"
    /\ ~done_(Cursor(tok_head, tok_tail))
    /\ LET r == postfix_step(Cursor(tok_head, tok_tail), stk)
       IN  /\ tok_head' = r.cur.head
           /\ tok_tail' = r.cur.tail
           /\ stk' = r.stk
           /\ IF r.st = "err"
              THEN pc' = "done" /\ res' = [st |-> "err", msg |-> r.msg, v |-> <<>>]
              ELSE pc' = "postfix" /\ res' = res
    /\ UNCHANGED <<str, parser, toks, next_i, consumed>>

\* parse-postfix returning the top of the stack whatever lies below it
postfix_result_top(stack) ==
    IF stack = <<>> THEN [st |-> "err", msg |-> "missing tokens", v |-> <<>>]
    ELSE [st |-> "ok", msg |-> "", v |-> Head(stack)]

\* what parse-postfix returns once parse-expr! has returned
postfix_result(stack) ==
    IF stack = <<>> THEN [st |-> "err", msg |-> "missing tokens", v |-> <<>>]
    ELSE IF Tail(stack) # <<>>
    THEN [st |-> "err", msg |-> "too many tokens", v |-> <<>>]
    ELSE [st |-> "ok", msg |-> "", v |-> Head(stack)]

PostfixFinish ==
    /\ pc = "postfix"
    /\ done_(Cursor(tok_head, tok_tail))
    /\ pc' = "done"
    /\ res' = postfix_result(stk)
    /\ UNCHANGED <<str, parser, tok_head, tok_tail, stk, toks, next_i,
                   consumed>>

\* One call of a C parse(): lex_string resets and refills toks, the parse
\* moves next_i; error() ends the process where the cursor stands.
CCall(name, ub, r) ==
    /\ pc = "start"
    /\ pc' = "done"
    /\ parser' = name
    /\ IF ub.fault
       THEN /\ res' = Fault
            /\ toks' = <<>>
            /\ next_i' = 0
       ELSE /\ res' = Result(r)
            /\ toks' = lex_string(str, ub)
            /\ next_i' = r.cur
    /\ UNCHANGED <<str, tok_head, tok_tail, stk, consumed>>

RecurDescParse ==
    \E ub \in UBOutcomes(str) :
        CCall("recur-desc", ub, rd_parse_toks(lex_string(str, ub)))

PrecClimbParse ==
    \E ub \in UBOutcomes(str) :
        CCall("prec-climb", ub, parse_toks(lex_string(str, ub)))

\* One call of classic_parse() of part_001.
ClassicParse ==
    \E ub \in classic_UBOutcomes(str) :
        /\ pc = "start"
        /\ pc' = "done"
        /\ parser' = "classic"
        /\ IF ub.fault
           THEN /\ res' = Fault
                /\ toks' = <<>>
                /\ next_i' = 0
           ELSE /\ res' = Result(classic_parse_toks(classic_lex_string(str, ub),
                                                    next_i))
                /\ toks' = classic_lex_string(str, ub)
                /\ next_i' = classic_parse_toks(classic_lex_string(str, ub),
                                                next_i).cur
        /\ UNCHANGED <<str, tok_head, tok_tail, stk, consumed>>

\* main() of src/infix_prec_climb.c: lex_string(str), whose tokens it prints
OldLexString ==
    \E ub \in old_UBOutcomes(str) :
        /\ pc = "start"
        /\ pc' = "done"
        /\ parser' = "old-lexer"
        /\ IF ub.fault
           THEN res' = Fault /\ toks' = <<>>
           ELSE res' = [st |-> "ok", msg |-> "", v |-> <<>>]
                /\ toks' = old_lex_string(str, ub)
        /\ UNCHANGED <<str, tok_head, tok_tail, stk, next_i, consumed>>

Next ==
    \/ ParsePrefix
    \/ PostfixInit
    \/ PostfixStep
    \/ PostfixFinish
    \/ ParseInfixRnn
    \/ ParseInfixRpn
    \/ ParseInfixLpp
    \/ RecurDescParse
    \/ PrecClimbParse
    \/ ClassicParse
    \/ OldLexString

Spec == Init /\ [][Next]_vars

(***************************************************************************)
(* Several calls in one process.  The token list and the cursor are file   *)
(* scope variables (lexer.h:61-62, part_001:157-158, xpr-fix.scm:103-104), *)
(* so a call starts from what the calls before it left there.  A client of *)
(* the lexer may also call lex_string / init! and then next and consume    *)
(* itself.                                                                 *)
(***************************************************************************)
\* longest string handed to a call
MaxCallLen == 2
\* most consume calls after one lex_string or init!
MaxConsumes == 4

CallChars == {"1", "+", " "}
CallInputs == SeqsUpTo(CallChars, MaxCallLen)

\* the operations of one program; parser names the last one that ran
SchemeProgram == {"none", "prefix", "postfix", "infix-rnn", "infix-rpn",
                  "infix-lpp", "init!"}
RecurDescProgram == {"none", "lex_string", "recur-desc"}
PrecClimbProgram == {"none", "lex_string", "prec-climb"}
ClassicProgram == {"none", "classic"}
OldLexerProgram == {"none", "old-lexer"}

InitCalls ==
    /\ str \in CallInputs
    /\ pc = "start"
    /\ parser = "none"
    /\ tok_head = NoTok
    /\ tok_tail = <<>>
    /\ stk = <<>>
    /\ toks = <<>>
    /\ next_i = 0
    /\ res = NoResult
    /\ consumed = 0

\* lex_string(str) called by the client itself
LexString ==
    \E ub \in UBOutcomes(str) :
        /\ pc = "start"
        /\ parser \in RecurDescProgram \cup PrecClimbProgram
        /\ parser' = IF parser = "none" THEN "lex_string" ELSE parser
        /\ IF ub.fault
           THEN /\ pc' = "done"
                /\ res' = Fault
                /\ toks' = <<>>
           ELSE /\ pc' = "lexed"
                /\ res' = NoResult
                /\ toks' = lex_string(str, ub)
        /\ next_i' = 0
        /\ consumed' = 0
        /\ UNCHANGED <<str, tok_head, tok_tail, stk>>

\* next() called by the client; res holds the token it returned
NextCall ==
    /\ pc = "lexed"
    /\ res' = [st |-> "ok", msg |-> "", v |-> next(toks, next_i)]
    /\ UNCHANGED <<str, pc, parser, tok_head, tok_tail, stk, toks, next_i,
                   consumed>>

\* consume() called by the client
ConsumeCall ==
    /\ pc = "lexed"
    /\ consumed < MaxConsumes
    /\ next_i' = consume(toks, next_i)
    /\ consumed' = consumed + 1
    /\ res' = NoResult
    /\ UNCHANGED <<str, pc, parser, tok_head, tok_tail, stk, toks>>

\* (init! (lex-line str)) called by the client
SchemeInit ==
    /\ pc = "start"
    /\ parser \in SchemeProgram
    /\ parser' = "init!"
    /\ IF lex_line(str).st = "err"
       THEN /\ pc' = "done"
            /\ res' = [st |-> "err", msg |-> lex_line(str).msg, v |-> <<>>]
            /\ UNCHANGED <<tok_head, tok_tail>>
       ELSE /\ pc' = "cursor"
            /\ res' = NoResult
            /\ tok_head' = init_(lex_line(str).tokens).head
            /\ tok_tail' = init_(lex_line(str).tokens).tail
    /\ consumed' = 0
    /\ UNCHANGED <<str, stk, toks, next_i>>

\* (next) called by the client; res holds what it returned
SchemeNext ==
    /\ pc = "cursor"
    /\ res' = [st |-> "ok", msg |-> "", v |-> next_(Cursor(tok_head, tok_tail))]
    /\ UNCHANGED <<str, pc, parser, tok_head, tok_tail, stk, toks, next_i,
                   consumed>>

\* (consume!) called by the client
SchemeConsume ==
    /\ pc = "cursor"
    /\ consumed < MaxConsumes
    /\ tok_head' = consume_(Cursor(tok_head, tok_tail)).head
    /\ tok_tail' = consume_(Cursor(tok_head, tok_tail)).tail
    /\ consumed' = consumed + 1
    /\ res' = NoResult
    /\ UNCHANGED <<str, pc, parser, stk, toks, next_i>>

\* The process goes on to its next call with another string.  error() of
\* the C programs exits (error.h:21-29, part_001:23-31), so a C process
\* goes on only after a call that returned; a Scheme error is a condition
\* the caller can handle.
NextInput ==
    /\ pc \in {"done", "lexed", "cursor"}
    /\ parser \in SchemeProgram \/ res.st \in {"ok", "none"}
    /\ pc' = "start"
    /\ str' \in CallInputs
    /\ res' = NoResult
    /\ consumed' = 0
    /\ UNCHANGED <<parser, tok_head, tok_tail, stk, toks, next_i>>

NextCalls ==
    \/ parser \in SchemeProgram /\ ParsePrefix
    \/ parser \in SchemeProgram /\ PostfixInit
    \/ PostfixStep
    \/ PostfixFinish
    \/ parser \in SchemeProgram /\ ParseInfixRnn
    \/ parser \in SchemeProgram /\ ParseInfixRpn
    \/ parser \in SchemeProgram /\ ParseInfixLpp
    \/ parser \in RecurDescProgram /\ RecurDescParse
    \/ parser \in PrecClimbProgram /\ PrecClimbParse
    \/ parser \in ClassicProgram /\ ClassicParse
    \/ parser \in OldLexerProgram /\ OldLexString
    \/ LexString
    \/ NextCall
    \/ ConsumeCall
    \/ SchemeInit
    \/ SchemeNext
    \/ SchemeConsume
    \/ NextInput

SpecCalls == InitCalls /\ [][NextCalls]_vars

(***************************************************************************)
(* The error kinds of the specification's taxonomy, read off the message   *)
(* the code raises.                                                        *)
(***************************************************************************)
ErrorKind(msg) ==
    CASE msg = "missing tokens" -> "MissingTokens"
      [] msg = "too many tokens" -> "ExtraTokens"
      [] msg = "invalid token" -> "InvalidToken"
      [] msg = "invalid token: %s" -> "InvalidToken"
      [] msg = "unexpected token: type = %d, word = %s" -> "InvalidToken"
      [] msg = "missing arguments" -> "MissingArguments"
      [] msg = "missing open bracket" -> "UnbalancedParens"
      [] msg = "invalid open bracket" -> "UnbalancedParens"
      [] msg = "expected %d, got %d" -> "UnexpectedToken"
      [] OTHER -> "Other"

\* the kind a finished call failed with, "ok" if it returned a tree
Kind(r) == IF r.st = "err" THEN ErrorKind(r.msg) ELSE r.st

Finished(name) == pc = "done" /\ parser = name

\* the tokens of the input line (xpr-fix.scm), <<>> if lex-line fails
LineLexes == lex_line(str).st = "ok"
LineTokens == lex_line(str).tokens

(***************************************************************************)
(* C1.                                                                     *)
(***************************************************************************)
\* the nesting depth after each character never drops below zero and ends
\* at zero
RECURSIVE ParenDepth(_, _)
ParenDepth(s, d) ==
    IF s = <<>> THEN d
    ELSE IF d < 0 THEN d
    ELSE ParenDepth(Tail(s), IF Head(s) = "(" THEN d + 1
                             ELSE IF Head(s) = ")" THEN d - 1 ELSE d)
Balanced(s) == ParenDepth(s, 0) = 0

RECURSIVE WithoutParens(_)
WithoutParens(s) ==
    IF s = <<>> THEN <<>>
    ELSE IF Head(s) \in {"(", ")"} THEN WithoutParens(Tail(s))
    ELSE <<Head(s)>> \o WithoutParens(Tail(s))

\* the input is an expression spoilt only by its parentheses: they are
\* unbalanced, and without them the line is a sentence parse-infix-lpp accepts
OnlyParensUnbalanced(s) ==
    /\ ~Balanced(s)
    /\ parse_infix_lpp(WithoutParens(s)).st = "ok"

\* C1: parse-infix-lpp fails with UnbalancedParens ("missing open bracket" or
\* "invalid open bracket") on every input whose parentheses are unbalanced,
\* here on the inputs that are well-formed but for the parentheses.
C1_UnbalancedParens ==
    (Finished("infix-lpp") /\ OnlyParensUnbalanced(str))
        => Kind(res) = "UnbalancedParens"

(***************************************************************************)
(* The grammars, as recognizers of sequences of token kinds: "n" a number  *)
(* or value, "o" a binary operator, "-" the minus sign where it may also   *)
(* be unary, "(" and ")" the parentheses, "x" anything else.  They are     *)
(* written from the grammars in the comments of the sources, not from the  *)
(* parsing procedures.                                                     *)
(***************************************************************************)
\* E -> N | O E E: need counts the expressions still owed; the scan gives
\* the count at the end of ks, or -1 if ks leaves the grammar before that
RECURSIVE PrefixScan(_, _)
PrefixScan(ks, need) ==
    IF ks = <<>> THEN need
    ELSE IF need = 0 THEN -1
    ELSE IF Head(ks) = "n" THEN PrefixScan(Tail(ks), need - 1)
    ELSE IF Head(ks) = "o" THEN PrefixScan(Tail(ks), need + 1)
    ELSE -1
PrefixSentence(ks) == PrefixScan(ks, 1) = 0

\* E -> N | E E O: have counts the expressions completed
RECURSIVE PostfixScan(_, _)
PostfixScan(ks, have) ==
    IF ks = <<>> THEN have = 1
    ELSE IF Head(ks) = "n" THEN PostfixScan(Tail(ks), have + 1)
    ELSE IF Head(ks) = "o" THEN have >= 2 /\ PostfixScan(Tail(ks), have - 1)
    ELSE FALSE
PostfixSentence(ks) == PostfixScan(ks, 0)

\* the infix grammars: operands and binary operators alternate; parens says
\* whether a bracketed expression is an operand, unary whether "-" may
\* precede an operand.  The scan gives where the end of ks stands: whether
\* an operand is due and how many brackets are open; ok is FALSE if ks
\* leaves the grammar before its end.
ScanState(ok, operand, depth) == [ok |-> ok, operand |-> operand, depth |-> depth]
RECURSIVE InfixScan(_, _, _, _, _)
InfixScan(ks, operand, depth, parens, unary) ==
    IF ks = <<>> THEN ScanState(TRUE, operand, depth)
    ELSE IF operand
    THEN IF Head(ks) = "n"
         THEN InfixScan(Tail(ks), FALSE, depth, parens, unary)
         ELSE IF Head(ks) = "(" /\ parens
         THEN InfixScan(Tail(ks), TRUE, depth + 1, parens, unary)
         ELSE IF Head(ks) = "-" /\ unary
         THEN InfixScan(Tail(ks), TRUE, depth, parens, unary)
         ELSE ScanState(FALSE, operand, depth)
    ELSE IF Head(ks) \in {"o", "-"}
         THEN InfixScan(Tail(ks), TRUE, depth, parens, unary)
         ELSE IF Head(ks) = ")" /\ parens /\ depth > 0
         THEN InfixScan(Tail(ks), FALSE, depth - 1, parens, unary)
         ELSE ScanState(FALSE, operand, depth)
InfixSentence(ks, parens, unary) ==
    InfixScan(ks, TRUE, 0, parens, unary) = ScanState(TRUE, FALSE, 0)

\* the kinds of the tokens of xpr-fix.scm
ScmKind(tok) ==
    CASE tok.t = "n" -> "n" [] tok.t = "o" -> "o"
      [] tok.t = "lp" -> "(" [] tok.t = "rp" -> ")" [] OTHER -> "x"
ScmKinds(ts) == [k \in 1..Len(ts) |-> ScmKind(ts[k])]

\* the kinds of the tokens of lexer.h as infix_recur_desc.c reads them: by
\* their type, with + - * / the operators
RdKind(tok) ==
    CASE tok.type = "TOK_VAL" -> "n"
      [] tok.type \in {"TOK_PLUS", "TOK_MINUS", "TOK_TIMES", "TOK_DIVIDE"} -> "o"
      [] tok.type = "TOK_PAREN_L" -> "("
      [] tok.type = "TOK_PAREN_R" -> ")"
      [] OTHER -> "x"
RdKinds(ts) == [k \in 1..Len(ts) |-> RdKind(ts[k])]

\* ... and as infix_prec_climb.c reads them: an operator by the character of
\* its word, a value or parenthesis by its type
PcKind(tok) ==
    CASE tok.type = "TOK_END" -> "x"
      [] tok.word = <<"-">> -> "-"
      [] tok.word \in {<<"=">>, <<"+">>, <<"*">>, <<"/">>, <<"^">>} -> "o"
      [] tok.type = "TOK_VAL" /\ tok.word # <<>> -> "n"
      [] tok.type = "TOK_PAREN_L" /\ tok.word # <<>> -> "("
      [] tok.type = "TOK_PAREN_R" /\ tok.word # <<>> -> ")"
      [] OTHER -> "x"
PcKinds(ts) == [k \in 1..Len(ts) |-> PcKind(ts[k])]

\* the sentences of each parser's grammar
Sentence(name, ks) ==
    CASE name = "prefix" -> PrefixSentence(ks)
      [] name = "postfix" -> PostfixSentence(ks)
      [] name \in {"infix-rnn", "infix-rpn"} -> InfixSentence(ks, FALSE, FALSE)
      [] name \in {"infix-lpp", "recur-desc"} -> InfixSentence(ks, TRUE, FALSE)
      [] name = "prec-climb" -> InfixSentence(ks, TRUE, TRUE)
      [] OTHER -> FALSE

SchemeParsers == {"prefix", "postfix", "infix-rnn", "infix-rpn", "infix-lpp"}
CParsers == {"recur-desc", "prec-climb"}

\* the kinds of the tokens the finished parser was given, in input order
Kinds ==
    CASE parser \in SchemeParsers -> ScmKinds(LineTokens)
      [] parser = "recur-desc" -> RdKinds(toks)
      [] parser = "prec-climb" -> PcKinds(toks)
      [] OTHER -> <<>>

\* the parser got as far as parsing: lex-line returned, lex_string did not
\* fault
Parsed ==
    /\ pc = "done"
    /\ parser \in SchemeParsers => LineLexes
    /\ parser \in CParsers => res.st # "fault"

(***************************************************************************)
(* C2.                                                                     *)
(***************************************************************************)
\* A complete expression is followed by a token that cannot continue it.
\* The recursive-descent parsers: a sentence, then a token that is no binary
\* operator (infix-lpp reads from the right, so there the sentence is a
\* suffix and the token the one before it).  The C lists may hold a token of
\* type TOK_END (the one lex_string stores for a string ending in a blank),
\* which expect(TOK_END) takes for the end, so it is no leftover.  The
\* postfix automaton: two sentences in a row.
Leftover ==
    LET ks == Kinds
        n == Len(ks)
    IN  CASE parser = "prefix" ->
               \E k \in 1..(n - 1) : Sentence(parser, SubSeq(ks, 1, k))
          [] parser = "postfix" ->
               \E k \in 1..(n - 1) : /\ Sentence(parser, SubSeq(ks, 1, k))
                                     /\ Sentence(parser, SubSeq(ks, k + 1, n))
          [] parser \in {"infix-rnn", "infix-rpn"} ->
               \E k \in 1..(n - 1) : /\ Sentence(parser, SubSeq(ks, 1, k))
                                     /\ ks[k + 1] \notin {"o", "-"}
          [] parser = "infix-lpp" ->
               \E k \in 1..(n - 1) : /\ Sentence(parser, SubSeq(ks, k + 1, n))
                                     /\ ks[k] \notin {"o", "-"}
          [] parser \in CParsers ->
               \E k \in 1..(n - 1) : /\ Sentence(parser, SubSeq(ks, 1, k))
                                     /\ ks[k + 1] \notin {"o", "-"}
                                     /\ toks[k + 1].type # "TOK_END"
          [] OTHER -> FALSE

SwapParen(k) == IF k = "(" THEN ")" ELSE IF k = ")" THEN "(" ELSE k
ReadingKinds ==
    IF parser = "infix-lpp"
    THEN [k \in 1..Len(Kinds) |-> SwapParen(Kinds[Len(Kinds) + 1 - k])]
    ELSE Kinds

\* the stream ends where a rule of the parser's grammar still needs an
\* operand: every token read fits the grammar, and an operand is due at the
\* end
OperandStillNeeded ==
    CASE parser = "prefix" -> PrefixScan(ReadingKinds, 1) > 0
      [] parser \in {"infix-rnn", "infix-rpn"} ->
           LET e == InfixScan(ReadingKinds, TRUE, 0, FALSE, FALSE)
           IN  e.ok /\ e.operand
      [] parser = "infix-lpp" ->
           LET e == InfixScan(ReadingKinds, TRUE, 0, TRUE, FALSE)
           IN  e.ok /\ e.operand
      [] OTHER -> FALSE

RECURSIVE StripTrailing(_)
StripTrailing(s) ==
    IF s # <<>> /\ isspace(s[Len(s)])
    THEN StripTrailing(SubSeq(s, 1, Len(s) - 1)) ELSE s
NoUB == [junk |-> "TOK_VAL", mem |-> <<>>, fault |-> FALSE]
IntendedToks(s) == lex_string(StripTrailing(s), NoUB)

\* the kinds of the tokens of the input given to the finished parser
InputKinds ==
    CASE parser \in SchemeParsers -> ScmKinds(LineTokens)
      [] parser = "recur-desc" -> RdKinds(IntendedToks(str))
      [] parser = "prec-climb" -> PcKinds(IntendedToks(str))
      [] OTHER -> <<>>

\* the input is a sentence of the grammar of the parser that has finished
ValidInput ==
    /\ pc = "done"
    /\ parser \in SchemeParsers => LineLexes
    /\ Sentence(parser, InputKinds)

RECURSIVE Leaves(_)
Leaves(tree) ==
    IF Len(tree) = 1 THEN 1
    ELSE IF Len(tree) = 2 THEN Leaves(tree[2])
    ELSE Leaves(tree[2]) + Leaves(tree[3])

CountOf(k, ks) == Cardinality({i \in 1..Len(ks) : ks[i] = k})

\* the cursor is at the end of the stream
AtEnd ==
    IF parser \in SchemeParsers
    THEN done_(Cursor(tok_head, tok_tail))
    ELSE next_i = Len(toks)

\* C4: for every parser and every input that is a sentence of its grammar,
\* the parse succeeds with all tokens consumed and returns a tree with as
\* many leaves as the input has number/value tokens.
C4_ValidSentenceParses ==
    ValidInput =>
        /\ res.st = "ok"
        /\ AtEnd
        /\ Leaves(res.v) = CountOf("n", InputKinds)

(***************************************************************************)
(* C5.                                                                     *)
(***************************************************************************)
\* the tree of the C parsers written as a tree of xpr-fix.scm: a value by
\* the number its word denotes, an operator by its character
RECURSIVE AsSchemeTree(_)
AsSchemeTree(ast) ==
    IF Len(ast) = 1 THEN Atom(NumeralValue(ast[1].word))
    ELSE IF Len(ast) = 2 THEN <<ast[1].word[1], AsSchemeTree(ast[2])>>
    ELSE <<ast[1].word[1], AsSchemeTree(ast[2]), AsSchemeTree(ast[3])>>

\* the line is a well-formed expression of numbers, + - * / and balanced
\* parentheses, written up to the last character of the string
ArithmeticExpression ==
    /\ LineLexes
    /\ InfixSentence(ScmKinds(LineTokens), TRUE, FALSE)
    /\ ~reads_past_end(str)

Operators(s) == {s[i] : i \in 1..Len(s)} \cap {"+", "-", "*", "/"}

\* C5: on every well-formed expression of numbers, + - * / and balanced
\* parentheses, parse-infix-lpp and the precedence-climbing parse return the
\* same tree.
C5_SameTree ==
    (pc = "done" /\ ArithmeticExpression) =>
        /\ parser = "infix-lpp" =>
             /\ res.st = "ok"
             /\ parse_toks(lex_string(str, NoUB)).st = "ok"
             /\ res.v = AsSchemeTree(parse_toks(lex_string(str, NoUB)).v)
        /\ parser = "prec-climb" =>
             /\ res.st = "ok"
             /\ parse_infix_lpp(str).st = "ok"
             /\ AsSchemeTree(res.v) = parse_infix_lpp(str).v

\* precedence climbing has parsed a bracketed expression with two operators
\* of one level and one of the other, as parse-infix-lpp does
C5_Witness ==
    /\ pc = "done" /\ ArithmeticExpression
    /\ parser = "prec-climb"
    /\ res.st = "ok"
    /\ Leaves(res.v) = 4
    /\ "(" \in {str[i] : i \in 1..Len(str)}
    /\ Operators(str) \in {{"-", "*"}, {"-", "/"}}
    /\ AsSchemeTree(res.v) = parse_infix_lpp(str).v

(***************************************************************************)
(* C6.                                                                     *)
(***************************************************************************)
ParenParsers == {"infix-lpp", "recur-desc", "prec-climb"}

\* the parse of a string by the named parser; the strings passed here do not
\* end in a blank, so lex_string stays inside them
ParseOf(name, s) ==
    CASE name = "infix-lpp" -> Result(parse_infix_lpp(s))
      [] name = "recur-desc" -> Result(rd_parse_toks(lex_string(s, NoUB)))
      [] name = "prec-climb" -> Result(parse_toks(lex_string(s, NoUB)))

\* the number 0 occurs in no input: it marks the place of a sub-expression
MarkerChar == "0"
MarkerLeaf(name) ==
    IF name = "infix-lpp" THEN Atom(0)
    ELSE <<Token("TOK_VAL", <<MarkerChar>>)>>

RECURSIVE Subst(_, _, _)
Subst(tree, leaf, sub) ==
    IF tree = leaf THEN sub
    ELSE IF Len(tree) = 1 THEN tree
    ELSE IF Len(tree) = 2 THEN <<tree[1], Subst(tree[2], leaf, sub)>>
    ELSE <<tree[1], Subst(tree[2], leaf, sub), Subst(tree[3], leaf, sub)>>

WithMarker(s, i, j) == SubSeq(s, 1, i - 1) \o <<MarkerChar>> \o SubSeq(s, j + 1, Len(s))
WithParens(s, i, j) ==
    SubSeq(s, 1, i - 1) \o <<"(">> \o SubSeq(s, i, j) \o <<")">>
        \o SubSeq(s, j + 1, Len(s))

\* characters i..j of s are a sub-expression that the parser groups as one
\* subtree of tree, the parse of s: they parse on their own, and tree is the
\* parse of s with one operand in their place, with their tree put there
Grouped(name, s, tree, i, j) ==
    /\ ~isspace(s[i]) /\ ~isspace(s[j])
    /\ ParseOf(name, SubSeq(s, i, j)).st = "ok"
    /\ ParseOf(name, WithMarker(s, i, j)).st = "ok"
    /\ Subst(ParseOf(name, WithMarker(s, i, j)).v, MarkerLeaf(name),
             ParseOf(name, SubSeq(s, i, j)).v) = tree

Spans(s) == {ij \in (1..Len(s)) \X (1..Len(s)) : ij[1] <= ij[2]}

\* C6: in a parser that supports parentheses, parentheses added around a
\* sub-expression that the parser already groups as one subtree do not
\* change the tree returned.
C6_RedundantParens ==
    (pc = "done" /\ parser \in ParenParsers /\ res.st = "ok"
        /\ ~reads_past_end(str)) =>
        \A ij \in Spans(str) :
            Grouped(parser, str, res.v, ij[1], ij[2]) =>
                ParseOf(parser, WithParens(str, ij[1], ij[2])) = res

\* the recursive-descent parser of infix_recur_desc.c has parsed an
\* expression with a grouped part that has an operator and no brackets of
\* its own, and is not the whole expression
C6_Witness ==
    /\ pc = "done" /\ parser = "recur-desc" /\ res.st = "ok"
    /\ ~reads_past_end(str)
    /\ \E ij \in Spans(str) :
           /\ ij[2] - ij[1] + 1 < Len(str)
           /\ str[ij[1]] # "("
           /\ Operators(SubSeq(str, ij[1], ij[2])) # {}
           /\ Grouped(parser, str, res.v, ij[1], ij[2])
           /\ ParseOf(parser, WithParens(str, ij[1], ij[2])) = res

(***************************************************************************)
(* C7.                                                                     *)
(***************************************************************************)
\* the precedence table and associativity as the claim states them
TablePrec(o) ==
    CASE o = "=" -> 0
      [] o \in {"+", "-"} -> 1
      [] o \in {"*", "/"} -> 2
      [] o = "^" -> 3
RightToLeft(o) == o = "^"

\* The tree the table fixes for the chain a1 o1 a2 ... on an: the root is an
\* operator of the lowest precedence in the chain, the last such one if the
\* level groups left to right, the first if it groups right to left; its
\* children are the trees of the chains on either side.
LowestPrec(ops) ==
    CHOOSE p \in 0..3 : /\ \E k \in 1..Len(ops) : TablePrec(ops[k]) = p
                        /\ \A k \in 1..Len(ops) : TablePrec(ops[k]) >= p
RootIndex(ops) ==
    LET at == {k \in 1..Len(ops) : TablePrec(ops[k]) = LowestPrec(ops)}
    IN  CHOOSE k \in at :
            \A m \in at : IF RightToLeft(ops[k]) THEN k <= m ELSE k >= m
RECURSIVE ChainTree(_, _)
ChainTree(operands, ops) ==
    IF ops = <<>> THEN Atom(operands[1])
    ELSE <<ops[RootIndex(ops)],
           ChainTree(SubSeq(operands, 1, RootIndex(ops)),
                     SubSeq(ops, 1, RootIndex(ops) - 1)),
           ChainTree(SubSeq(operands, RootIndex(ops) + 1, Len(operands)),
                     SubSeq(ops, RootIndex(ops) + 1, Len(ops)))>>

\* the input is a chain of numbers joined by binary operators of
\* binary_prec_arr, without brackets or unary minus
IsChain ==
    /\ ~reads_past_end(str)
    /\ InfixSentence(PcKinds(IntendedToks(str)), FALSE, FALSE)
    /\ \A k \in 1..Len(IntendedToks(str)) :
          IntendedToks(str)[k].type = "TOK_VAL" => IsNumeral(IntendedToks(str)[k].word)
\* its values and its operators, in order: tokens 1, 3, 5, ... and 2, 4, ...
ChainOperands ==
    [k \in 1..((Len(IntendedToks(str)) + 1) \div 2) |->
        NumeralValue(IntendedToks(str)[2 * k - 1].word)]
ChainOperators ==
    [k \in 1..(Len(IntendedToks(str)) \div 2) |->
        IntendedToks(str)[2 * k].word[1]]

\* C7: on a chain of binary operators, precedence climbing returns the tree
\* fixed by the table = 0, + - 1, * / 2, ^ 3: the higher precedence binds
\* first, equal left-associative levels group left to right, ^ groups right
\* to left.
C7_PrecedenceTree ==
    (Finished("prec-climb") /\ IsChain) =>
        /\ res.st = "ok"
        /\ AsSchemeTree(res.v) = ChainTree(ChainOperands, ChainOperators)

\* a chain with two adjacent ^ after an operator of a lower level
C7_Witness ==
    /\ Finished("prec-climb") /\ IsChain
    /\ Len(ChainOperators) = 3
    /\ ChainOperators[1] \in {"+", "-"}
    /\ ChainOperators[2] = "^" /\ ChainOperators[3] = "^"
    /\ res.st = "ok"
    /\ AsSchemeTree(res.v) = ChainTree(ChainOperands, ChainOperators)

(***************************************************************************)
(* C8.                                                                     *)
(***************************************************************************)
\* A tree of xpr-fix.scm listed root first, then the left child, then the
\* right child: the kind of each node, the number of each leaf (-1 at an
\* operation), the operator of each operation ("" at a leaf).
RECURSIVE PreorderKinds(_), PreorderNums(_), PreorderOps(_)
PreorderKinds(tree) ==
    IF Len(tree) = 1 THEN <<"n">>
    ELSE <<"o">> \o PreorderKinds(tree[2]) \o PreorderKinds(tree[3])
PreorderNums(tree) ==
    IF Len(tree) = 1 THEN <<tree[1]>>
    ELSE <<-1>> \o PreorderNums(tree[2]) \o PreorderNums(tree[3])
PreorderOps(tree) ==
    IF Len(tree) = 1 THEN <<"">>
    ELSE <<tree[1]>> \o PreorderOps(tree[2]) \o PreorderOps(tree[3])

\* the same three lists of a token list
TokenNums(ts) == [k \in 1..Len(ts) |-> IF ts[k].t = "n" THEN ts[k].v ELSE -1]
TokenOps(ts) == [k \in 1..Len(ts) |-> IF ts[k].t = "o" THEN ts[k].v ELSE ""]

\* the first token that is neither a number nor an operator, 0 if none
FirstOther(ks) ==
    IF \A k \in 1..Len(ks) : ks[k] \in {"n", "o"} THEN 0
    ELSE CHOOSE k \in 1..Len(ks) :
             /\ ks[k] \notin {"n", "o"}
             /\ \A m \in 1..(k - 1) : ks[m] \in {"n", "o"}

\* parse-expr! of parse-prefix is called with a lookahead that is neither a
\* number nor an operator: the tokens before it fit the grammar and leave an
\* expression due
OtherLookahead ==
    /\ FirstOther(Kinds) > 0
    /\ PrefixScan(SubSeq(Kinds, 1, FirstOther(Kinds) - 1), 1) > 0

\* C8: on a well-formed Polish-notation input parse-prefix returns the tree
\* whose nodes, listed root first, then left child, then right child, are
\* the tokens in input order: a leaf for a number, an operation for an
\* operator, whose left child is the expression parsed first and whose right
\* child the one parsed second.  A lookahead that is neither a number nor an
\* operator fails with InvalidToken.
C8_PrefixTree ==
    (Finished("prefix") /\ LineLexes) =>
        /\ PrefixSentence(Kinds) =>
             /\ res.st = "ok"
             /\ PreorderKinds(res.v) = Kinds
             /\ PreorderNums(res.v) = TokenNums(LineTokens)
             /\ PreorderOps(res.v) = TokenOps(LineTokens)
        /\ OtherLookahead => Kind(res) = "InvalidToken"

\* the shape of "+ 1 * 2 3": an operation whose right child is an operation
C8_Witness ==
    /\ Finished("prefix") /\ LineLexes
    /\ Kinds = <<"o", "n", "o", "n", "n">>
    /\ res.st = "ok"
    /\ Len(res.v[2]) = 1 /\ Len(res.v[3]) = 3
    /\ PreorderNums(res.v) = TokenNums(LineTokens)
    /\ PreorderOps(res.v) = TokenOps(LineTokens)

\* a parenthesis where parse-prefix expects an expression
C8_WitnessInvalid ==
    /\ Finished("prefix") /\ LineLexes
    /\ OtherLookahead
    /\ FirstOther(Kinds) > 1
    /\ Kind(res) = "InvalidToken"

(***************************************************************************)
(* C9.                                                                     *)
(***************************************************************************)
\* parse-expr! of parse-postfix is about to read a token; the top of the
\* stack is stk[1]
PostfixReads(type) ==
    /\ pc = "postfix"
    /\ ~done_(Cursor(tok_head, tok_tail))
    /\ tok_head.t = type

\* C9: in the postfix automaton an operator read with fewer than two nodes
\* on the stack fails with MissingArguments; read with at least two it
\* replaces the top two nodes by one operation whose left child is the
\* second-from-top node and whose right child is the top node, and leaves
\* the nodes below unchanged; a number pushes one leaf.
C9_PostfixStep ==
    [][ /\ (PostfixReads("o") /\ Len(stk) < 2) =>
             (pc' = "done" /\ Kind(res') = "MissingArguments")
        /\ (PostfixReads("o") /\ Len(stk) >= 2) =>
             /\ pc' = "postfix"
             /\ stk' = << <<tok_head.v, stk[2], stk[1]>> >> \o SubSeq(stk, 3, Len(stk))
        /\ PostfixReads("n") =>
             /\ pc' = "postfix"
             /\ stk' = <<Atom(tok_head.v)>> \o stk
      ]_vars

\* an operator has combined the top two of three nodes, different from one
\* another, and one node is left below
C9_Witness ==
    /\ pc = "postfix"
    /\ Len(stk) = 2
    /\ Len(stk[1]) = 3
    /\ stk[1][2] # stk[1][3]
    /\ Len(stk[2]) = 1

(***************************************************************************)
(* C10.                                                                    *)
(***************************************************************************)
\* C10: once parse-postfix has consumed all input without an error, it
\* returns the node on the stack if there is exactly one, fails with
\* MissingTokens if the stack is empty and with ExtraTokens if it holds more
\* than one node.
C10_PostfixResult ==
    [][ (pc = "postfix" /\ done_(Cursor(tok_head, tok_tail))) =>
            /\ pc' = "done"
            /\ Len(stk) = 1 => (res'.st = "ok" /\ res'.v = stk[1])
            /\ Len(stk) = 0 => Kind(res') = "MissingTokens"
            /\ Len(stk) > 1 => Kind(res') = "ExtraTokens"
      ]_vars

\* parse-postfix has finished on two expressions in a row
C10_Witness ==
    /\ Finished("postfix") /\ LineLexes
    /\ done_(Cursor(tok_head, tok_tail))
    /\ Len(stk) = 2
    /\ Kind(res) = "ExtraTokens"

(***************************************************************************)
(* C11.                                                                    *)
(***************************************************************************)
\* the strictly right-nested tree of the tokens N1 o1 N2 o2 ... Nk:
\* (o1 N1 (o2 N2 (... Nk)))
RECURSIVE RightNested(_)
RightNested(ts) ==
    IF Len(ts) = 1 THEN Atom(ts[1].v)
    ELSE <<ts[2].v, Atom(ts[1].v), RightNested(SubSeq(ts, 3, Len(ts)))>>

\* the left child of every operation of the tree is a leaf
RECURSIVE LeftChildrenAreLeaves(_)
LeftChildrenAreLeaves(tree) ==
    IF Len(tree) = 1 THEN TRUE
    ELSE Len(tree[2]) = 1 /\ LeftChildrenAreLeaves(tree[3])

\* the line is N1 o1 N2 ... Nk with o in + - * /
ScmChain == LineLexes /\ InfixSentence(ScmKinds(LineTokens), FALSE, FALSE)

\* C11: parse-infix-rnn returns, for every input N1 o1 N2 o2 ... Nk, the
\* strictly right-nested tree (o1 N1 (o2 N2 (... Nk))), whatever the
\* operators are: the left child of every operation is a leaf.
C11_RightNested ==
    (Finished("infix-rnn") /\ ScmChain) =>
        /\ res.st = "ok"
        /\ res.v = RightNested(LineTokens)
        /\ LeftChildrenAreLeaves(res.v)

\* a chain where precedence would group otherwise: N * N + N + N
C11_Witness ==
    /\ Finished("infix-rnn") /\ ScmChain
    /\ Len(LineTokens) = 7
    /\ LineTokens[2].v \in {"*", "/"}
    /\ LineTokens[4].v \in {"+", "-"}
    /\ res.st = "ok"
    /\ res.v = RightNested(LineTokens)

(***************************************************************************)
(* C12.                                                                    *)
(***************************************************************************)
RightAssocParsers == {"infix-rpn", "recur-desc", "classic"}

Additive(o) == o \in {"+", "-"}
Multiplicative(o) == o \in {"*", "/"}

\* The tree of the chain a1 o1 a2 ... on an when * / bind tighter than + -
\* and both classes group right to left: the root is the first + or - if
\* there is one, else the first operator.
FirstRoot(ops) ==
    IF \E k \in 1..Len(ops) : Additive(ops[k])
    THEN CHOOSE k \in 1..Len(ops) :
             Additive(ops[k]) /\ \A m \in 1..(k - 1) : ~Additive(ops[m])
    ELSE 1
RECURSIVE RightAssocTree(_, _)
RightAssocTree(operands, ops) ==
    IF ops = <<>> THEN Atom(operands[1])
    ELSE <<ops[FirstRoot(ops)],
           RightAssocTree(SubSeq(operands, 1, FirstRoot(ops)),
                          SubSeq(ops, 1, FirstRoot(ops) - 1)),
           RightAssocTree(SubSeq(operands, FirstRoot(ops) + 1, Len(operands)),
                          SubSeq(ops, FirstRoot(ops) + 1, Len(ops)))>>

\* the numbers and the operators of a line that is a chain
LineOperands == [k \in 1..((Len(LineTokens) + 1) \div 2) |-> LineTokens[2 * k - 1].v]
LineOperators == [k \in 1..(Len(LineTokens) \div 2) |-> LineTokens[2 * k].v]

\* the tree a finished parser returned, as a tree of xpr-fix.scm
ResultTree == IF parser \in SchemeParsers THEN res.v ELSE AsSchemeTree(res.v)

\* the position in the token list of the k-th number of the line
NumberPos(k) ==
    CHOOSE p \in 1..Len(LineTokens) :
        /\ LineTokens[p].t = "n"
        /\ Cardinality({m \in 1..p : LineTokens[m].t = "n"}) = k

\* the numbers a..b of the line, with what lies between them, are written
\* in parentheses: a "(" before them and a ")" after them, separated from
\* them by parentheses only, enclose an expression
InParens(a, b) ==
    \E i \in 1..(NumberPos(a) - 1), j \in (NumberPos(b) + 1)..Len(LineTokens) :
        /\ \A m \in i..(NumberPos(a) - 1) : LineTokens[m].t = "lp"
        /\ \A m \in (NumberPos(b) + 1)..j : LineTokens[m].t = "rp"
        /\ InfixSentence(ScmKinds(SubSeq(LineTokens, i + 1, j - 1)), TRUE, FALSE)

\* no + or - operation is a child of a * or / operation unless it was
\* written in parentheses; first is the number of the tree's first leaf
\* among the numbers of the line
RECURSIVE AdditiveOnlyInParens(_, _)
AdditiveOnlyInParens(tree, first) ==
    IF Len(tree) = 1 THEN TRUE
    ELSE /\ (Multiplicative(tree[1]) /\ Len(tree[2]) = 3 /\ Additive(tree[2][1]))
               => InParens(first, first + Leaves(tree[2]) - 1)
         /\ (Multiplicative(tree[1]) /\ Len(tree[3]) = 3 /\ Additive(tree[3][1]))
               => InParens(first + Leaves(tree[2]), first + Leaves(tree) - 1)
         /\ AdditiveOnlyInParens(tree[2], first)
         /\ AdditiveOnlyInParens(tree[3], first + Leaves(tree[2]))

\* C12: in parse-infix-rpn and the C expr/term/fact recursive descent
\* (infix_recur_desc.c and the classic algorithm of part_001), * and / bind
\* tighter than + and - and each class groups right to left: a chain parses
\* to the tree fixed by that rule, so a - b - c gives (- a (- b c)) and
\* a / b / c gives (/ a (/ b c)), and no + or - operation is a child of a
\* * or / operation unless it was written in parentheses.
C12_RightAssocPrecedence ==
    (pc = "done" /\ parser \in RightAssocParsers /\ LineLexes
        /\ (parser \in SchemeParsers \/ ~reads_past_end(str))) =>
        /\ InfixSentence(ScmKinds(LineTokens), FALSE, FALSE) =>
             /\ res.st = "ok"
             /\ ResultTree = RightAssocTree(LineOperands, LineOperators)
        /\ (parser # "infix-rpn"
              /\ InfixSentence(ScmKinds(LineTokens), TRUE, FALSE)) =>
             /\ res.st = "ok"
             /\ AdditiveOnlyInParens(ResultTree, 1)

\* infix_recur_desc.c on a chain a - b / c / d
C12_Witness ==
    /\ Finished("recur-desc") /\ ScmChain /\ ~reads_past_end(str)
    /\ LineOperators = <<"-", "/", "/">>
    /\ res.st = "ok"
    /\ ResultTree = RightAssocTree(LineOperands, LineOperators)
    /\ Len(ResultTree[3][3]) = 3

\* the classic algorithm on a + - operation in parentheses under a * /
C12_WitnessParens ==
    /\ Finished("classic") /\ LineLexes /\ ~reads_past_end(str)
    /\ InfixSentence(ScmKinds(LineTokens), TRUE, FALSE)
    /\ res.st = "ok" /\ Len(ResultTree) = 3
    /\ Multiplicative(ResultTree[1])
    /\ Len(ResultTree[3]) = 3 /\ Additive(ResultTree[3][1])
    /\ AdditiveOnlyInParens(ResultTree, 1)

(***************************************************************************)
(* C13.                                                                    *)
(***************************************************************************)
\* the tokens the cursor of xpr-fix.scm was initialised with
InitTokens == lex_line(str).tokens

\* a and b are the same token of xpr-fix.scm, or both #f
SameTok(a, b) == a.t = b.t /\ (a.t # "#f" => a.v = b.v)

\* C13: after lex_string (or init!) and any number of next and consume
\* calls, the position lies between 0 and the number of tokens, it is the
\* number of consume calls made, capped at the number of tokens; next
\* returns the first token not consumed, or the end token (#f in
\* xpr-fix.scm) when none is left; a consume at the end changes nothing.
C13_Cursor ==
    /\ pc = "lexed" =>
         /\ next_i \in 0..Len(toks)
         /\ next_i = IF consumed < Len(toks) THEN consumed ELSE Len(toks)
         /\ res.st = "ok" =>
              res.v = IF consumed < Len(toks) THEN toks[consumed + 1]
                      ELSE tok_end
    /\ pc = "cursor" =>
         /\ IF consumed < Len(InitTokens)
            THEN /\ SameTok(tok_head, InitTokens[consumed + 1])
                 /\ tok_tail = SubSeq(InitTokens, consumed + 2, Len(InitTokens))
            ELSE tok_head = NoTok /\ tok_tail = <<>>
         /\ res.st = "ok" =>
              SameTok(res.v, IF consumed < Len(InitTokens)
                             THEN InitTokens[consumed + 1] ELSE NoTok)

\* lexer.h: next at the end after more consume calls than there are tokens
C13_Witness ==
    /\ pc = "lexed"
    /\ Len(toks) = 2
    /\ consumed = MaxConsumes
    /\ next_i = 2
    /\ res.st = "ok"
    /\ res.v = tok_end

\* xpr-fix.scm: (next) at the end after more (consume!) calls than tokens
C13_WitnessScheme ==
    /\ pc = "cursor"
    /\ Len(InitTokens) = 2
    /\ consumed = MaxConsumes
    /\ res.st = "ok"
    /\ res.v.t = "#f"

(***************************************************************************)
(* C14.                                                                    *)
(***************************************************************************)
\* the operator and parenthesis characters of the lexer that ran
LexerOps ==
    IF parser \in {"old-lexer", "classic"} THEN classic_op_chars ELSE op_chars
LexerValueTypes == {"TOK_VAL", "TOK_OTHER"}

\* the positions of str where a token starts: every operator character, and
\* every other character that is not whitespace and does not continue a run
TokenStarts ==
    {p \in 1..Len(str) :
        /\ ~isspace(str[p])
        /\ \/ str[p] \in LexerOps
           \/ p = 1
           \/ isspace(str[p - 1])
           \/ str[p - 1] \in LexerOps}
\* the last position of the token that starts at p
TokenLast(p) ==
    IF str[p] \in LexerOps THEN p
    ELSE CHOOSE q \in p..Len(str) :
             /\ \A m \in p..q : ~isspace(str[m]) /\ str[m] \notin LexerOps
             /\ q = Len(str) \/ isspace(str[q + 1]) \/ str[q + 1] \in LexerOps
\* the start of the k-th token
TokenStart(k) ==
    CHOOSE p \in TokenStarts : Cardinality({q \in TokenStarts : q <= p}) = k

\* C14: lex_string ends without reading behind the string and leaves one
\* token for each operator or parenthesis character and one value token for
\* each maximal run of other characters that are not whitespace, in the
\* order of the input, and no other token; no word contains whitespace.
C14_LexString ==
    (pc = "done" /\ parser \in {"recur-desc", "prec-climb", "old-lexer"}) =>
        /\ res.st # "fault"
        /\ Len(toks) = Cardinality(TokenStarts)
        /\ \A k \in 1..Len(toks) :
             /\ toks[k].word = SubSeq(str, TokenStart(k), TokenLast(TokenStart(k)))
             /\ (toks[k].type \in LexerValueTypes)
                  <=> (str[TokenStart(k)] \notin LexerOps)

\* what holds of lexer.h: on a string that does not end in whitespace,
\* lex_string leaves exactly those tokens
C14_LexStringNoTrailingBlank ==
    (pc = "done" /\ parser \in {"recur-desc", "prec-climb"}
        /\ ~reads_past_end(str)) =>
        /\ res.st # "fault"
        /\ Len(toks) = Cardinality(TokenStarts)
        /\ \A k \in 1..Len(toks) :
             /\ toks[k].word = SubSeq(str, TokenStart(k), TokenLast(TokenStart(k)))
             /\ (toks[k].type \in LexerValueTypes)
                  <=> (str[TokenStart(k)] \notin LexerOps)

(***************************************************************************)
(* C15.                                                                    *)
(***************************************************************************)
\* the line has a word that is not a numeric literal: a letter is neither
\* whitespace nor an operator character of any lexer, so it lies in a value
\* word, which string->number does not convert
HasNonNumericWord == \E p \in 1..Len(str) : str[p] \in Letters

AllParsers == SchemeParsers \cup {"postfix"} \cup CParsers \cup {"classic"}

\* C15: a line with a value word that is not a numeric literal is rejected
\* with InvalidToken, by every parser; none returns a tree for it.
C15_NonNumericWord ==
    (pc = "done" /\ parser \in AllParsers /\ HasNonNumericWord) =>
        Kind(res) = "InvalidToken"

\* the part that holds of xpr-fix.scm: the line is rejected, no tree is
\* returned
C15_SchemeRejects ==
    (pc = "done" /\ parser \in SchemeParsers \cup {"postfix"}
        /\ HasNonNumericWord) => res.st = "err"

\* the C parsers run no numeric conversion: infix_recur_desc.c returns the
\* leaf of the word "a"
C15_LeafOfName ==
    /\ Finished("recur-desc") /\ str = <<"a">>
    /\ res.st = "ok"
    /\ res.v[1].word = <<"a">>

(***************************************************************************)
(* C16.                                                                    *)
(***************************************************************************)
\* parse-postfix as one function of the line
RECURSIVE postfix_run(_, _)
postfix_run(cur, stack) ==
    IF done_(cur) THEN postfix_result(stack)
    ELSE IF postfix_step(cur, stack).st = "err"
    THEN [st |-> "err", msg |-> postfix_step(cur, stack).msg, v |-> <<>>]
    ELSE postfix_run(postfix_step(cur, stack).cur, postfix_step(cur, stack).stk)
parse_postfix(line) ==
    IF lex_line(line).st = "err"
    THEN [st |-> "err", msg |-> lex_line(line).msg, v |-> <<>>]
    ELSE postfix_run(init_(lex_line(line).tokens), <<>>)

\* what the first call of a process can return for the line s
FreshResults(name, s) ==
    CASE name = "prefix" -> {Result(parse_prefix(s))}
      [] name = "postfix" -> {parse_postfix(s)}
      [] name = "infix-rnn" -> {Result(parse_infix_rnn(s))}
      [] name = "infix-rpn" -> {Result(parse_infix_rpn(s))}
      [] name = "infix-lpp" -> {Result(parse_infix_lpp(s))}
      [] name = "recur-desc" ->
           {IF ub.fault THEN Fault
            ELSE Result(rd_parse_toks(lex_string(s, ub))) : ub \in UBOutcomes(s)}
      [] name = "prec-climb" ->
           {IF ub.fault THEN Fault
            ELSE Result(parse_toks(lex_string(s, ub))) : ub \in UBOutcomes(s)}
      [] name = "classic" ->
           {IF ub.fault THEN Fault
            ELSE Result(classic_parse_toks(classic_lex_string(s, ub), 0))
              : ub \in classic_UBOutcomes(s)}

SameResult(a, b) ==
    a.st = b.st /\ a.msg = b.msg /\ (a.st = "ok" => a.v = b.v)

\* C16: whatever calls came before it in the process, a parse call returns
\* what the same call returns as the first call of a fresh process, and
\* lex_string leaves the tokens it leaves in a fresh process, with the
\* cursor at the start.
C16_SelfContained ==
    /\ (pc = "done" /\ parser \in AllParsers) =>
          \E r \in FreshResults(parser, str) : SameResult(res, r)
    /\ (pc = "lexed" /\ consumed = 0) =>
          /\ next_i = 0
          /\ \E ub \in UBOutcomes(str) : toks = lex_string(str, ub)

\* the same of every parser but classic_parse of part_001
C16_SelfContainedWithReset ==
    /\ (pc = "done" /\ parser \in AllParsers \ {"classic"}) =>
          \E r \in FreshResults(parser, str) : SameResult(res, r)
    /\ (pc = "lexed" /\ consumed = 0) =>
          /\ next_i = 0
          /\ \E ub \in UBOutcomes(str) : toks = lex_string(str, ub)

(***************************************************************************)
(* C17.                                                                    *)
(***************************************************************************)
\* the tree of a C parser with the characters of its tokens: a leaf is
\* <<word>>, a unary node <<"-", child>>, a binary node <<o, left, right>>
RECURSIVE CShape(_)
CShape(t) ==
    IF Len(t) = 1 THEN <<t[1].word>>
    ELSE IF Len(t) = 2 THEN <<t[1].word[1], CShape(t[2])>>
    ELSE <<t[1].word[1], CShape(t[2]), CShape(t[3])>>
RECURSIVE ShapeLeaves(_)
ShapeLeaves(t) ==
    IF Len(t) = 1 THEN 1
    ELSE IF Len(t) = 2 THEN ShapeLeaves(t[2])
    ELSE ShapeLeaves(t[2]) + ShapeLeaves(t[3])

\* the line is an expression of values, binary operators, unary minus and
\* brackets, and does not end in whitespace
UnaryExpression ==
    /\ ~reads_past_end(str)
    /\ InfixSentence(PcKinds(IntendedToks(str)), TRUE, TRUE)
\* ... without brackets
UnaryChain ==
    /\ ~reads_past_end(str)
    /\ InfixSentence(PcKinds(IntendedToks(str)), FALSE, TRUE)

\* the position of the k-th value among the tokens of the line
ValuePos(k) ==
    CHOOSE p \in 1..Len(IntendedToks(str)) :
        /\ IntendedToks(str)[p].type = "TOK_VAL"
        /\ Cardinality({m \in 1..p : IntendedToks(str)[m].type = "TOK_VAL"}) = k
ValueCount ==
    Cardinality({m \in 1..Len(IntendedToks(str)) :
                    IntendedToks(str)[m].type = "TOK_VAL"})

\* the values a..b of the line and what lies between them were written in
\* brackets: a "(" before them, with only "(" and unary minus up to the
\* first value, and a ")" after them, with only ")" from the last value,
\* enclose an expression
ValuesInParens(a, b) ==
    \E i \in 1..(ValuePos(a) - 1),
       j \in (ValuePos(b) + 1)..Len(IntendedToks(str)) :
        /\ IntendedToks(str)[i].type = "TOK_PAREN_L"
        /\ IntendedToks(str)[j].type = "TOK_PAREN_R"
        /\ \A m \in (i + 1)..(ValuePos(a) - 1) :
              \/ IntendedToks(str)[m].type = "TOK_PAREN_L"
              \/ IntendedToks(str)[m].type = "TOK_MINUS"
        /\ \A m \in (ValuePos(b) + 1)..(j - 1) :
              IntendedToks(str)[m].type = "TOK_PAREN_R"
        /\ InfixSentence(PcKinds(SubSeq(IntendedToks(str), i + 1, j - 1)),
                         TRUE, TRUE)

\* the child of every unary node is a leaf, a unary node, or a binary
\* operation written in brackets; first is the number of the tree's first
\* leaf among the values of the line
RECURSIVE UnaryChildren(_, _)
UnaryChildren(t, first) ==
    IF Len(t) = 1 THEN TRUE
    ELSE IF Len(t) = 2
    THEN /\ Len(t[2]) = 3 =>
              ValuesInParens(first, first + ShapeLeaves(t[2]) - 1)
         /\ UnaryChildren(t[2], first)
    ELSE /\ UnaryChildren(t[2], first)
         /\ UnaryChildren(t[3], first + ShapeLeaves(t[2]))

\* The tree of a chain with unary minus: the k-th operand is the k-th value
\* under as many unary nodes as there are minus signs before it, and the
\* operands are joined as the table joins a chain.
RECURSIVE Negated(_, _)
Negated(n, leaf) == IF n = 0 THEN leaf ELSE <<"-", Negated(n - 1, leaf)>>
MinusesBefore(k) ==
    IF k = 1 THEN ValuePos(1) - 1 ELSE ValuePos(k) - ValuePos(k - 1) - 2
UnaryOperands ==
    [k \in 1..ValueCount |->
        Negated(MinusesBefore(k), <<IntendedToks(str)[ValuePos(k)].word>>)]
UnaryOperators ==
    [k \in 1..(ValueCount - 1) |-> IntendedToks(str)[ValuePos(k) + 1].word[1]]
RECURSIVE JoinedTree(_, _)
JoinedTree(operands, ops) ==
    IF ops = <<>> THEN operands[1]
    ELSE <<ops[RootIndex(ops)],
           JoinedTree(SubSeq(operands, 1, RootIndex(ops)),
                      SubSeq(ops, 1, RootIndex(ops) - 1)),
           JoinedTree(SubSeq(operands, RootIndex(ops) + 1, Len(operands)),
                      SubSeq(ops, RootIndex(ops) + 1, Len(ops)))>>

\* C17: in infix_prec_climb.c unary minus binds tighter than every binary
\* operator.  A unary minus is accepted wherever an operand may stand; the
\* child of every unary node is a value leaf, another unary node, or an
\* expression written in brackets; without brackets each minus sign applies
\* to the value that follows it alone, so -a+b gives (+ (- a) b) and -a^b
\* gives (^ (- a) b).
C17_UnaryBindsTightest ==
    (Finished("prec-climb") /\ UnaryExpression) =>
        /\ res.st = "ok"
        /\ UnaryChildren(CShape(res.v), 1)
        /\ UnaryChain => CShape(res.v) = JoinedTree(UnaryOperands, UnaryOperators)

\* -1^2 parsed as (^ (- 1) 2)
C17_Witness ==
    /\ Finished("prec-climb")
    /\ str = <<"-", "1", "^", "2">>
    /\ res.st = "ok"
    /\ CShape(res.v) = <<"^", <<"-", <<<<"1">>>>>>, <<<<"2">>>>>>

\* -1+2 parsed as (+ (- 1) 2)
C17_WitnessSum ==
    /\ Finished("prec-climb")
    /\ str = <<"-", "1", "+", "2">>
    /\ res.st = "ok"
    /\ CShape(res.v) = <<"+", <<"-", <<<<"1">>>>>>, <<<<"2">>>>>>

\* a unary minus directly after a binary operator: 1*2*-3
C17_WitnessAfterOperator ==
    /\ Finished("prec-climb")
    /\ str = <<"1", "*", "2", "*", "-", "3">>
    /\ res.st = "ok"
    /\ CShape(res.v) = <<"*", <<"*", <<<<"1">>>>, <<<<"2">>>>>>,
                         <<"-", <<<<"3">>>>>>>>

\* a unary node over an expression in brackets and over a unary node
C17_WitnessParens ==
    /\ Finished("prec-climb") /\ UnaryExpression
    /\ res.st = "ok"
    /\ Len(res.v) = 3 /\ Len(res.v[2]) = 2 /\ Len(res.v[2][2]) = 3
    /\ Len(res.v[3]) = 2 /\ Len(res.v[3][2]) = 2
    /\ UnaryChildren(CShape(res.v), 1)

(***************************************************************************)
(* C18.                                                                    *)
(***************************************************************************)
\* the leaves of a tree of xpr-fix.scm from left to right
RECURSIVE LeafNumbers(_)
LeafNumbers(tree) ==
    IF Len(tree) = 1 THEN <<tree[1]>>
    ELSE LeafNumbers(tree[2]) \o LeafNumbers(tree[3])
\* the leaves of a tree of a C parser from left to right, by their words
RECURSIVE LeafWords(_)
LeafWords(ast) ==
    IF Len(ast) = 1 THEN <<ast[1].word>>
    ELSE IF Len(ast) = 2 THEN LeafWords(ast[2])
    ELSE LeafWords(ast[2]) \o LeafWords(ast[3])

\* the numbers of the tokens of the line, in input order
RECURSIVE NumbersOf(_)
NumbersOf(ts) ==
    IF ts = <<>> THEN <<>>
    ELSE IF Head(ts).t = "n" THEN <<Head(ts).v>> \o NumbersOf(Tail(ts))
    ELSE NumbersOf(Tail(ts))
\* the value words of the line in input order: its maximal runs of
\* characters that are neither whitespace nor operator characters
ValueStarts == {p \in TokenStarts : str[p] \notin LexerOps}
InputValueWords ==
    [k \in 1..Cardinality(ValueStarts) |->
        LET p == CHOOSE q \in ValueStarts :
                     Cardinality({m \in ValueStarts : m <= q}) = k
        IN  SubSeq(str, p, TokenLast(p))]

\* C18: whenever a parser returns a tree, the leaves of the tree read from
\* left to right are the number (value) tokens of the input in input order;
\* parse-infix-lpp, which parses the reversed tokens and inverts the tree,
\* gives that order at every depth.
C18_LeafOrder ==
    (pc = "done" /\ parser \in AllParsers /\ res.st = "ok") =>
        IF parser \in SchemeParsers
        THEN LeafNumbers(res.v) = NumbersOf(LineTokens)
        ELSE LeafWords(res.v) = InputValueWords

\* the same where lex_string does not read behind the string
C18_LeafOrderNoOverRead ==
    (pc = "done" /\ parser \in AllParsers /\ res.st = "ok"
        /\ (parser \in SchemeParsers \/ ~reads_past_end(str))) =>
        IF parser \in SchemeParsers
        THEN LeafNumbers(res.v) = NumbersOf(LineTokens)
        ELSE LeafWords(res.v) = InputValueWords

\* parse-infix-lpp on an input whose tree has operations on both sides of
\* the root
C18_LppBothSides ==
    /\ Finished("infix-lpp") /\ res.st = "ok"
    /\ Len(res.v) = 3 /\ Len(res.v[2]) = 3 /\ Len(res.v[3]) = 3
    /\ LeafNumbers(res.v) = <<1, 2, 3, 4>>
    /\ LeafNumbers(res.v) = NumbersOf(LineTokens)

====
